---- MODULE Spec2Model ----
(***************************************************************************)
(* Verification model of the ASL translator front end (Bits232/ASL).       *)
(*                                                                         *)
(* Conventions                                                             *)
(*  - Time is counted in ticks of 100 ms (Date.now() / 100).               *)
(*  - Confidences are counted in hundredths (0.7 is 70).                   *)
(*  - A landmark array is a sequence; landmarks[k] of the source is        *)
(*    element k+1 of the sequence.                                         *)
(*  - null / undefined is NULL for strings and NONE for objects.            *)
(*  - Each component of the program has its own group of variables and its *)
(*    own specification; the other groups stay in their initial state.     *)
(***************************************************************************)
EXTENDS Integers, Naturals, Sequences, FiniteSets, TLC

VARIABLES
  \* useASLGestures (hooks/useASLGestures.ts)
  g_landmarks,      \* argument of the last generateHeuristicPrediction call
  g_prediction,     \* its return value
  \* useASLModel (hooks/useASLModel.tsx)
  m_mounted,        \* the component using the hook is mounted
  m_model,          \* useState model
  m_isLoading,      \* useState isLoading
  m_error,          \* useState error
  m_modelRef,       \* modelRef.current
  m_isLoadingRef,   \* isLoadingRef.current
  m_loadPc,         \* where the loadModel call stands
  m_loadRejected,   \* tf.loadLayersModel was tried and rejected
  m_landmarks,      \* the hand passed to predict / extractFeatures
  m_predPc,         \* where the predict call stands
  m_calls,          \* number of predict calls made
  m_probs,          \* the output of the model in the last predict call
  m_result,         \* what the last predict call returned
  m_resultAfterLoad,\* that call was made after loadModel had finished
  m_features,       \* what the last extractFeatures call returned
  \* ASLCamera (components/ASLCamera.tsx, first component): prediction effect
  c_clock,               \* Date.now()
  c_handposeResult,      \* handposeResult of the last render
  c_nextHandposeResult,  \* value passed to setHandposeResult since, or NONE
  c_lastPredictionTime,  \* useState lastPredictionTime of the last render
  c_nextLastPredictionTime, \* value passed to setLastPredictionTime since, or -1
  c_onDetectionChanged,  \* the parent rendered again: onDetection is a new function
  c_currentPrediction,   \* latest value given to setCurrentPrediction
  c_callTimes,           \* Date.now() at each call of onDetection so far
  \* SignToText and ASLRecognitionCamera (second component of ASLCamera.tsx)
  r_clock,               \* Date.now()
  s_translations,        \* SignToText useState translations (latest value)
  s_isSpeechEnabled,     \* SignToText useState isSpeechEnabled (latest value)
  s_dirty,               \* SignToText has a state update to render
  r_onDetection,         \* the handleDetection closure of the last render:
                         \* the translations and isSpeechEnabled it captured
  r_isMediaPipeReady,    \* useMediaPipeHands isInitialized
  r_isModelLoading,      \* useASLModel isLoading
  r_customModel,         \* useASLModel modelRef.current is a loaded model
  r_lastResultTime,      \* lastResultTime of hands.onResults
  r_handsResult,         \* handsResult (latest value)
  r_dirty,               \* a dependency of the prediction effect has changed
  r_lastPredictionTime,  \* lastPredictionTime.current
  r_predictionTimeoutRef,\* predictionTimeoutRef.current (0 is null)
  r_timers,              \* the pending timeouts
  r_nextTimerId,
  r_inflight,            \* predict calls awaiting prediction.data()
  r_currentPrediction,   \* latest value given to setCurrentPrediction
  r_scheduleTimes,       \* Date.now() at each setTimeout of makePrediction
  r_predictTimes,        \* Date.now() at each call of predict
  r_delivery,            \* the last call of onDetection: was the detection
                         \* added, was speak called, was sound on
  \* useWebcam (videoRef variant) and the retry button of ASLCamera
  w_clock,       \* Date.now()
  w_mounted,     \* ASLCamera is mounted
  w_effectRun,   \* the auto-start effect has run
  w_state,       \* isReady, error, isLoading as rendered
  w_next,        \* isReady, error, isLoading after the queued updates
  w_video,       \* videoRef.current: the mounted video element (0 is null)
  w_srcObject,   \* srcObject of the mounted video element (0 is null)
  w_nextVideo,
  w_streamRef,   \* streamRef.current (0 is null)
  w_live,        \* the streams whose tracks have not been stopped
  w_nextStream,
  w_timers,      \* the pending timeouts of handleRetry
  w_calls,       \* the startWebcam calls in flight
  w_started,     \* number of startWebcam calls so far
  w_done,          \* how the last finished startWebcam call went
  w_stopped,     \* stopWebcam has run and startWebcam has not been called since
  \* TextToSign
  t_inputText,   \* useState inputText, a sequence of characters
  t_currentSign, \* useState currentSign
  t_timers,      \* pending delayed handleSubmit calls: the inputText each saw
  t_submitted,     \* the last handleSubmit call: its inputText, currentSign before
  t_set,         \* for each pending call, the text set just before it was scheduled
  t_isListening, \* useState isListening
  t_recognition, \* the inputText seen by onresult of the running recognition
  \* useHandDetection (pixel colour and motion detector)
  d_clock,          \* Date.now()
  d_calls,          \* calls of detectHandInFrame so far
  d_previousFrame,  \* previousFrameRef.current
  d_handDetection,  \* useState handDetection; confidence is num / den
  d_lastDetection,  \* lastDetectionRef.current
  d_signPending,    \* detectSign promises not yet resolved
  d_detectedLetter, \* useState detectedLetter
  d_analysis,         \* the counters of the last analysed frame
  \* ASLRecognitionCamera: the webcam stream
  v_mounted,     \* the component is mounted
  v_effectsRun,  \* the effects of the first render have run
  v_state,       \* stream, videoError, isVideoReady, retryCount as rendered
  v_next,        \* the same after the queued updates
  v_srcObject,   \* srcObject of the video element (0 is null or no element)
  v_live,        \* the streams whose tracks have not been stopped
  v_nextStream,
  v_calls,       \* the startWebcam calls in flight
  v_requests,    \* number of getUserMedia requests so far
  v_failed,        \* a getUserMedia or play() promise has rejected
  \* App and the prediction display of ASLCamera
  a_clock,            \* Date.now()
  a_predictions,      \* App useState predictions (latest value)
  a_onDetection,      \* the predictions captured by the handleDetection of
  \* App's last render
  a_dirty,            \* App has a state update to render
  a_currentPrediction, \* ASLCamera currentPrediction (latest value)
  a_calls,              \* number of calls of onDetection so far
  \* useHandpose: the detection loop
  hp_mounted,       \* the component using the hook is mounted
  hp_isModelLoaded, \* useState isModelLoaded
  hp_videoElement,  \* the videoElement argument (0 is null)
  hp_modelRef,      \* modelRef.current is a loaded model
  hp_animationRef,  \* animationRef.current (0 is null)
  hp_isDetectingRef, \* isDetectingRef.current
  hp_handposeResult, \* useState handposeResult (latest value)
  hp_loops,         \* the detect loops: each waits for its animation frame or
  \* for estimateHands
  hp_nextLoop,
  hp_nextFrame,
  hp_stopped,       \* the loops that were running when stopDetection ran
  hp_afterStop        \* what those loops have done since

varsGestures == <<g_landmarks, g_prediction>>

varsModel == <<m_mounted, m_model, m_isLoading, m_error, m_modelRef,
               m_isLoadingRef, m_loadPc, m_loadRejected, m_landmarks,
               m_predPc, m_calls, m_probs, m_result, m_resultAfterLoad,
               m_features>>

varsCamera == <<c_clock, c_handposeResult, c_nextHandposeResult,
                c_lastPredictionTime, c_nextLastPredictionTime,
                c_onDetectionChanged, c_currentPrediction, c_callTimes>>

varsRecog == <<r_clock, s_translations, s_isSpeechEnabled, s_dirty,
               r_onDetection, r_isMediaPipeReady, r_isModelLoading,
               r_customModel, r_lastResultTime, r_handsResult, r_dirty,
               r_lastPredictionTime, r_predictionTimeoutRef, r_timers,
               r_nextTimerId, r_inflight, r_currentPrediction,
               r_scheduleTimes, r_predictTimes, r_delivery>>

varsWebcam == <<w_clock, w_mounted, w_effectRun, w_state, w_next, w_video,
    w_srcObject, w_nextVideo, w_streamRef, w_live, w_nextStream, w_timers,
    w_calls, w_started, w_done,
    w_stopped>>

varsText == <<t_inputText, t_currentSign, t_timers, t_submitted, t_set,
             t_isListening, t_recognition>>

varsDetection == <<d_clock, d_calls, d_previousFrame, d_handDetection,
    d_lastDetection, d_signPending, d_detectedLetter, d_analysis>>

varsVideo == <<v_mounted, v_effectsRun, v_state, v_next, v_srcObject,
    v_live, v_nextStream, v_calls, v_requests, v_failed>>

varsApp == <<a_clock, a_predictions, a_onDetection, a_dirty,
    a_currentPrediction, a_calls>>

varsHandpose == <<hp_mounted, hp_isModelLoaded, hp_videoElement,
    hp_modelRef, hp_animationRef, hp_isDetectingRef, hp_handposeResult,
    hp_loops, hp_nextLoop, hp_nextFrame, hp_stopped, hp_afterStop>>

vars == <<varsGestures, varsModel, varsCamera, varsRecog, varsWebcam, varsText, varsDetection, varsVideo, varsApp, varsHandpose>>

\* the variables of the other components, for each component
othersGestures == <<varsModel, varsCamera, varsRecog, varsWebcam, varsText, varsDetection, varsVideo, varsApp, varsHandpose>>

othersModel == <<varsGestures, varsCamera, varsRecog, varsWebcam, varsText, varsDetection, varsVideo, varsApp, varsHandpose>>

othersCamera == <<varsGestures, varsModel, varsRecog, varsWebcam, varsText, varsDetection, varsVideo, varsApp, varsHandpose>>

othersRecog == <<varsGestures, varsModel, varsCamera, varsWebcam, varsText, varsDetection, varsVideo, varsApp, varsHandpose>>

othersWebcam == <<varsGestures, varsModel, varsCamera, varsRecog, varsText, varsDetection, varsVideo, varsApp, varsHandpose>>

othersText == <<varsGestures, varsModel, varsCamera, varsRecog, varsWebcam, varsDetection, varsVideo, varsApp, varsHandpose>>

othersDetection == <<varsGestures, varsModel, varsCamera, varsRecog, varsWebcam, varsText, varsVideo, varsApp, varsHandpose>>

othersVideo == <<varsGestures, varsModel, varsCamera, varsRecog, varsWebcam, varsText, varsDetection, varsApp, varsHandpose>>

othersApp == <<varsGestures, varsModel, varsCamera, varsRecog, varsWebcam, varsText, varsDetection, varsVideo, varsHandpose>>

othersHandpose == <<varsGestures, varsModel, varsCamera, varsRecog, varsWebcam, varsText, varsDetection, varsVideo, varsApp>>

\* null where a string is expected, and null where an object is expected
NULL == "null"

NONE == [null |-> TRUE]

----------------------------------------------------------------------------
(* Numbers and geometry                                                    *)

Abs(i) == IF i < 0 THEN -i ELSE i

Min2(a, b) == IF a < b THEN a ELSE b

Max2(a, b) == IF a > b THEN a ELSE b

IsSquare(n) == \E r \in 0..n : r * r = n

\* Math.sqrt, exact on the perfect squares the inputs are restricted to
Sqrt(n) == CHOOSE r \in 0..n : r * r <= n /\ (r + 1) * (r + 1) > n

Pt(x, y, z) == [x |-> x, y |-> y, z |-> z]

\* landmarks[k]; HasLandmark is FALSE where the source reads undefined
HasLandmark(landmarks, k) == k + 1 \in DOMAIN landmarks

Landmark(landmarks, k) == landmarks[k + 1]

TipIndices == <<4, 8, 12, 16, 20>>

\* An array of n landmarks with the given wrist, the five fingertips tips[1..5]
\* and every other landmark equal to other.
MkHand(n, wrist, tips, other) ==
  [k \in 1..n |->
     IF k = 1 THEN wrist
     ELSE IF (k - 1) \in {4, 8, 12, 16, 20} THEN tips[(k - 1) \div 4]
     ELSE other]

----------------------------------------------------------------------------
(* useASLGestures: generateHeuristicPrediction                              *)

G_Pred(letter, confidence) == [letter |-> letter, confidence |-> confidence]

\* getDistance of useASLGestures: 2D Euclidean distance
G_getDistance(p1, p2) ==
  Sqrt((p1.x - p2.x) * (p1.x - p2.x) + (p1.y - p2.y) * (p1.y - p2.y))

\* the five wrist-to-fingertip distances, thumb first
G_dists(landmarks) ==
  [i \in 1..5 |-> G_getDistance(Landmark(landmarks, 0),
                                Landmark(landmarks, TipIndices[i]))]

\* 5 * avgDist (avgDist is the sum divided by 5)
G_sumDist(landmarks) ==
  LET d == G_dists(landmarks) IN d[1] + d[2] + d[3] + d[4] + d[5]

\* extendedFingers: dist > threshold, threshold = avgDist * 0.7
\* (both sides multiplied by 50)
G_extendedFingers(landmarks) ==
  LET d == G_dists(landmarks) IN
  [i \in 1..5 |-> 50 * d[i] > 7 * G_sumDist(landmarks)]

G_classifyMut(ext) ==
  LET extendedCount == Cardinality({i \in 1..5 : ext[i]}) IN
  IF extendedCount = 0 THEN G_Pred("A", 70)
  ELSE IF extendedCount = 1 THEN
    IF ext[2] THEN G_Pred("D", 80)
    ELSE IF ext[5] THEN G_Pred("I", 80)
    ELSE G_Pred("A", 60)
  ELSE IF extendedCount = 2 THEN
    IF ext[1] /\ ext[2] THEN G_Pred("L", 80)
    ELSE IF ext[2] /\ ext[3] THEN G_Pred("V", 80)
    ELSE IF ext[1] /\ ext[5] THEN G_Pred("Y", 80)
    ELSE G_Pred("V", 60)
  ELSE IF extendedCount = 4 THEN G_Pred("B", 70)
  ELSE G_Pred("B", 70)

\* the classification rules on the extendedFingers array (index 1 = thumb)
G_classify(ext) ==
  LET extendedCount == Cardinality({i \in 1..5 : ext[i]}) IN
  IF extendedCount = 0 THEN G_Pred("A", 70)
  ELSE IF extendedCount = 1 THEN
    IF ext[2] THEN G_Pred("D", 80)
    ELSE IF ext[5] THEN G_Pred("I", 80)
    ELSE G_Pred("A", 60)
  ELSE IF extendedCount = 2 THEN
    IF ext[2] /\ ext[3] THEN G_Pred("V", 80)
    ELSE IF ext[1] /\ ext[2] THEN G_Pred("L", 80)
    ELSE IF ext[1] /\ ext[5] THEN G_Pred("Y", 80)
    ELSE G_Pred("V", 60)
  ELSE IF extendedCount = 4 THEN G_Pred("B", 70)
  ELSE G_Pred("B", 60)

\* reading .x of a missing landmark throws; the catch block returns A (0.5)
G_generateHeuristicPrediction(landmarks) ==
  IF \E k \in {0, 4, 8, 12, 16, 20} : ~HasLandmark(landmarks, k)
  THEN G_Pred("A", 50)
  ELSE G_classify(G_extendedFingers(landmarks))

\* Inputs: wrists and fingertips on a 3-4-5 rectangle, so that every 2D
\* distance is an integer; one fingertip differs from the origin only in z.
G_Wrists == {Pt(0, 0, 0), Pt(3, 4, 0)}

G_TipPoints == {Pt(0, 0, 0), Pt(3, 0, 0), Pt(0, 4, 0), Pt(3, 4, 0), Pt(0, 0, 7)}

G_Lengths == {21}

G_ShortLengths == {0, 5, 20}

G_Hands ==
  {MkHand(n, w, t, Pt(1, 1, 0)) :
     n \in G_Lengths, w \in G_Wrists, t \in [1..5 -> G_TipPoints]}
  \cup {MkHand(n, Pt(0, 0, 0), [i \in 1..5 |-> Pt(3, 4, 0)], Pt(1, 1, 0)) :
     n \in G_ShortLengths}

\* the component at rest: no call has been made
IdleGestures ==
  /\ g_landmarks = <<>>
  /\ g_prediction = NONE

\* a call of generateHeuristicPrediction is about to be made with some hand
InitGestures ==
  /\ g_landmarks \in G_Hands
  /\ g_prediction = NONE

G_Predict ==
  /\ g_prediction = NONE
  /\ g_prediction' = G_generateHeuristicPrediction(g_landmarks)
  /\ UNCHANGED <<g_landmarks, othersGestures>>


----------------------------------------------------------------------------
(* useASLModel: loadModel, extractFeatures, predict                        *)

ASL_LABELS == <<"A", "B", "C", "D", "E", "F", "G", "H", "I", "J", "K", "L", "M",
                "N", "O", "P", "Q", "R", "S", "T", "U", "V", "W", "X", "Y", "Z">>

M_Pred(letter, confidence) == [letter |-> letter, confidence |-> confidence]

\* 3D distance between two fingertips of the normalized landmarks
M_tipDistance(p1, p2) ==
  Sqrt((p1.x - p2.x) * (p1.x - p2.x) + (p1.y - p2.y) * (p1.y - p2.y)
       + (p1.z - p2.z) * (p1.z - p2.z))

M_normalizedLandmarks(landmarks) ==
  LET wrist == Landmark(landmarks, 0) IN
  [k \in DOMAIN landmarks |->
     Pt(landmarks[k].x - wrist.x, landmarks[k].y - wrist.y,
        landmarks[k].z - wrist.z)]

\* flatMap(point => [point.x, point.y, point.z])
M_landmarkFeatures(normalized) ==
  [f \in 1..(3 * Len(normalized)) |->
     LET point == normalized[((f - 1) \div 3) + 1] IN
     CASE (f - 1) % 3 = 0 -> point.x
       [] (f - 1) % 3 = 1 -> point.y
       [] (f - 1) % 3 = 2 -> point.z]

\* the pairs (i, j), i < j, of the nested loops, in the order they are pushed
M_tipPairs ==
  <<<<1, 2>>, <<1, 3>>, <<1, 4>>, <<1, 5>>, <<2, 3>>,
    <<2, 4>>, <<2, 5>>, <<3, 4>>, <<3, 5>>, <<4, 5>>>>

M_distanceFeatures(normalized) ==
  [q \in 1..Len(M_tipPairs) |->
     M_tipDistance(Landmark(normalized, TipIndices[M_tipPairs[q][1]]),
                   Landmark(normalized, TipIndices[M_tipPairs[q][2]]))]

M_extractFeaturesMut(landmarks) ==
  IF Len(landmarks) < 21
  THEN [threw |-> TRUE, features |-> <<>>]
  ELSE LET normalized == M_normalizedLandmarks(landmarks) IN
       [threw |-> FALSE,
        features |-> M_landmarkFeatures(normalized)
                       \o M_distanceFeatures(normalized)]

\* extractFeatures: throws unless there are exactly 21 landmarks
M_extractFeatures(landmarks) ==
  IF Len(landmarks) # 21
  THEN [threw |-> TRUE, features |-> <<>>]
  ELSE LET normalized == M_normalizedLandmarks(landmarks) IN
       [threw |-> FALSE,
        features |-> M_landmarkFeatures(normalized)
                       \o M_distanceFeatures(normalized)]

\* getDistance of useASLModel: 2D Euclidean distance
M_getDistance(p1, p2) ==
  Sqrt((p1.x - p2.x) * (p1.x - p2.x) + (p1.y - p2.y) * (p1.y - p2.y))

M_dists(landmarks) ==
  [i \in 1..5 |-> M_getDistance(Landmark(landmarks, 0),
                                Landmark(landmarks, TipIndices[i]))]

\* extendedFingers: dist > threshold, threshold = avgDist * 0.75
\* (both sides multiplied by 20)
M_extendedFingers(landmarks) ==
  LET d == M_dists(landmarks) IN
  [i \in 1..5 |-> 20 * d[i] > 3 * (d[1] + d[2] + d[3] + d[4] + d[5])]

\* generateHeuristicPrediction of useASLModel; coin is Math.random() > 0.5
M_generateHeuristicPrediction(landmarks, coin) ==
  IF \E k \in {0, 4, 8, 12, 16, 20} : ~HasLandmark(landmarks, k)
  THEN M_Pred("A", 50)
  ELSE
    LET ext == M_extendedFingers(landmarks)
        extendedCount == Cardinality({i \in 1..5 : ext[i]})
    IN
    IF extendedCount = 0 THEN M_Pred(IF coin THEN "A" ELSE "S", 75)
    ELSE IF extendedCount = 1 THEN
      IF ext[2] THEN M_Pred("D", 80)
      ELSE IF ext[5] THEN M_Pred("I", 80)
      ELSE IF ext[1] THEN M_Pred("A", 70)
      ELSE M_Pred("A", 70)
    ELSE IF extendedCount = 2 THEN
      IF ext[2] /\ ext[3] THEN M_Pred("V", 85)
      ELSE IF ext[1] /\ ext[2] THEN M_Pred("L", 80)
      ELSE M_Pred("U", 75)
    ELSE IF extendedCount = 3 THEN M_Pred("W", 75)
    ELSE IF extendedCount = 4 THEN M_Pred("B", 80)
    ELSE M_Pred("B", 70)

\* the loop over probabilities[1..]: state <<maxIndex, maxProb>> (0-based index)
RECURSIVE M_argmaxLoopMut(_, _, _, _)
M_argmaxLoopMut(probabilities, i, maxIndex, maxProb) ==
  IF i >= Len(probabilities) THEN <<maxIndex, maxProb>>
  ELSE IF probabilities[i + 1] >= maxProb
       THEN M_argmaxLoopMut(probabilities, i + 1, i, probabilities[i + 1])
       ELSE M_argmaxLoopMut(probabilities, i + 1, maxIndex, maxProb)

RECURSIVE M_argmaxLoop(_, _, _, _)
M_argmaxLoop(probabilities, i, maxIndex, maxProb) ==
  IF i >= Len(probabilities) THEN <<maxIndex, maxProb>>
  ELSE IF probabilities[i + 1] > maxProb
       THEN M_argmaxLoop(probabilities, i + 1, i, probabilities[i + 1])
       ELSE M_argmaxLoop(probabilities, i + 1, maxIndex, maxProb)

\* the value predict returns from the model's output
M_modelPrediction(probabilities) ==
  LET r == M_argmaxLoop(probabilities, 1, 0, probabilities[1]) IN
  M_Pred(IF r[1] + 1 \in DOMAIN ASL_LABELS THEN ASL_LABELS[r[1] + 1] ELSE "A",
         r[2])

\* Inputs of predict: hands whose 2D wrist-to-tip distances are integers
M_TipPoints == {Pt(0, 0, 7), Pt(3, 4, 0)}

M_Hands ==
  {MkHand(21, Pt(0, 0, 0), t, Pt(1, 2, 3)) : t \in [1..5 -> M_TipPoints]}
  \cup {MkHand(20, Pt(0, 0, 0), [i \in 1..5 |-> Pt(3, 4, 0)], Pt(1, 2, 3))}

\* Outputs of the model: up to M_MaxClasses classes, probabilities in
\* hundredths, two marked positions over a flat background
M_MaxClasses == 27

M_MaxCalls == 2

M_Outputs ==
  {[k \in 1..n |-> IF k = i THEN a ELSE IF k = j THEN b ELSE c] :
     n \in {2, 26, M_MaxClasses}, i \in {1, 26}, j \in {2, M_MaxClasses},
     a \in {10, 50}, b \in {10, 50}, c \in {0}}

\* Inputs of extractFeatures: hands of 20, 21 and 22 landmarks whose
\* fingertip-to-fingertip 3D distances are integers
F_TipPoints == {Pt(0, 0, 0), Pt(3, 0, 0), Pt(3, 4, 0), Pt(3, 4, 12)}

F_Wrists == {Pt(0, 0, 0), Pt(1, 2, 5)}

F_Lengths == {20, 21, 22}

F_Hands ==
  {h \in {MkHand(n, w, t, Pt(1, 1, 1)) :
            n \in F_Lengths, w \in F_Wrists, t \in [1..5 -> F_TipPoints]} :
     \A i, j \in {f \in 1..5 : HasLandmark(h, TipIndices[f])} :
       LET p == Landmark(h, TipIndices[i])
           q == Landmark(h, TipIndices[j])
       IN IsSquare((p.x - q.x) * (p.x - q.x) + (p.y - q.y) * (p.y - q.y)
                   + (p.z - q.z) * (p.z - q.z))}

\* the hook right after the first render, before its effect has run
M_Fresh ==
  /\ m_mounted = TRUE
  /\ m_model = NULL
  /\ m_isLoading = TRUE
  /\ m_error = NULL
  /\ m_modelRef = NULL
  /\ m_isLoadingRef = FALSE
  /\ m_loadPc = "mount"
  /\ m_loadRejected = FALSE
  /\ m_predPc = "idle"
  /\ m_calls = 0
  /\ m_probs = <<>>
  /\ m_result = NONE
  /\ m_resultAfterLoad = FALSE
  /\ m_features = NONE

IdleModel == m_landmarks = <<>> /\ M_Fresh

InitModel == m_landmarks \in M_Hands /\ M_Fresh

InitFeatures == m_landmarks \in F_Hands /\ M_Fresh

\* a state setter of a component that may have been unmounted
M_set(old, new) == IF m_mounted THEN new ELSE old

M_loadVars == <<m_model, m_isLoading, m_error, m_modelRef, m_isLoadingRef,
                m_loadPc, m_loadRejected>>

M_predVars == <<m_predPc, m_calls, m_probs, m_result, m_resultAfterLoad>>

\* the mount effect calls loadModel, which runs up to "await tf.ready()"
M_MountEffect ==
  /\ m_mounted /\ m_loadPc = "mount"
  /\ ~m_isLoadingRef
  /\ m_isLoadingRef' = TRUE
  /\ m_isLoading' = TRUE
  /\ m_error' = NULL
  /\ m_loadPc' = "tfReady"
  /\ UNCHANGED <<m_mounted, m_model, m_modelRef, m_loadRejected, m_landmarks,
                 M_predVars, m_features, othersModel>>

\* tf.ready() resolves; the backend is webgl already or has to be set
M_TfReadyResolve ==
  /\ m_loadPc = "tfReady"
  /\ \E isWebgl \in BOOLEAN :
       m_loadPc' = IF isWebgl THEN "loadLayers" ELSE "setBackend"
  /\ UNCHANGED <<m_mounted, m_model, m_isLoading, m_error, m_modelRef,
                 m_isLoadingRef, m_loadRejected, m_landmarks, M_predVars,
                 m_features, othersModel>>

M_SetBackendResolve ==
  /\ m_loadPc = "setBackend"
  /\ m_loadPc' = "loadLayers"
  /\ UNCHANGED <<m_mounted, m_model, m_isLoading, m_error, m_modelRef,
                 m_isLoadingRef, m_loadRejected, m_landmarks, M_predVars,
                 m_features, othersModel>>

\* tf.ready() or tf.setBackend() rejects: the outer catch
M_InitReject ==
  /\ m_loadPc \in {"tfReady", "setBackend"}
  /\ m_error' = M_set(m_error, "Failed to initialize TensorFlow.js")
  /\ m_isLoading' = M_set(m_isLoading, FALSE)
  /\ m_isLoadingRef' = FALSE
  /\ m_loadPc' = "done"
  /\ UNCHANGED <<m_mounted, m_model, m_modelRef, m_loadRejected, m_landmarks,
                 M_predVars, m_features, othersModel>>

M_LoadLayersResolve ==
  /\ m_loadPc = "loadLayers"
  /\ m_modelRef' = "model"
  /\ m_model' = M_set(m_model, "model")
  /\ m_isLoading' = M_set(m_isLoading, FALSE)
  /\ m_isLoadingRef' = FALSE
  /\ m_loadPc' = "done"
  /\ UNCHANGED <<m_mounted, m_error, m_loadRejected, m_landmarks, M_predVars,
                 m_features, othersModel>>

M_LoadLayersRejectMut ==
  /\ m_loadPc = "loadLayers"
  /\ m_loadRejected' = TRUE
  /\ m_error' = M_set(m_error, "Failed to initialize TensorFlow.js")
  /\ m_isLoading' = M_set(m_isLoading, FALSE)
  /\ m_isLoadingRef' = FALSE
  /\ m_loadPc' = "done"
  /\ UNCHANGED <<m_mounted, m_model, m_modelRef, m_landmarks,
                 M_predVars, m_features, othersModel>>

\* tf.loadLayersModel rejects: the inner catch only logs
M_LoadLayersReject ==
  /\ m_loadPc = "loadLayers"
  /\ m_loadRejected' = TRUE
  /\ m_isLoading' = M_set(m_isLoading, FALSE)
  /\ m_isLoadingRef' = FALSE
  /\ m_loadPc' = "done"
  /\ UNCHANGED <<m_mounted, m_model, m_error, m_modelRef, m_landmarks,
                 M_predVars, m_features, othersModel>>

\* the cleanup of the mount effect
M_Unmount ==
  /\ m_mounted /\ m_loadPc # "mount"
  /\ m_mounted' = FALSE
  /\ m_modelRef' = NULL
  /\ UNCHANGED <<m_model, m_isLoading, m_error, m_isLoadingRef, m_loadPc,
                 m_loadRejected, m_landmarks, M_predVars, m_features, othersModel>>

\* predict up to its first await, or to its return when nothing is awaited;
\* throws: tf.tensor2d or model.predict throws
M_PredictCall ==
  /\ m_predPc = "idle" /\ m_calls < M_MaxCalls
  /\ m_calls' = m_calls + 1
  /\ m_resultAfterLoad' = (m_loadPc = "done")
  /\ \E coin \in BOOLEAN, throws \in BOOLEAN :
       LET features == M_extractFeatures(m_landmarks) IN
       IF ~features.threw /\ m_modelRef # NULL /\ ~throws
       THEN /\ m_predPc' = "awaitData"
            /\ UNCHANGED <<m_probs, m_result>>
       ELSE /\ m_predPc' = "idle"
            /\ m_probs' = <<>>
            /\ m_result' = M_generateHeuristicPrediction(m_landmarks, coin)
  /\ UNCHANGED <<m_mounted, M_loadVars, m_landmarks, m_features, othersModel>>

\* prediction.data() resolves with the model's output
M_DataResolve ==
  /\ m_predPc = "awaitData"
  /\ \E probabilities \in M_Outputs :
       /\ m_probs' = probabilities
       /\ m_result' = M_modelPrediction(probabilities)
  /\ m_predPc' = "idle"
  /\ UNCHANGED <<m_mounted, M_loadVars, m_landmarks, m_calls,
                 m_resultAfterLoad, m_features, othersModel>>

\* prediction.data() rejects: the catch of predict
M_DataReject ==
  /\ m_predPc = "awaitData"
  /\ \E coin \in BOOLEAN :
       m_result' = M_generateHeuristicPrediction(m_landmarks, coin)
  /\ m_probs' = <<>>
  /\ m_predPc' = "idle"
  /\ UNCHANGED <<m_mounted, M_loadVars, m_landmarks, m_calls,
                 m_resultAfterLoad, m_features, othersModel>>

\* a call of extractFeatures on the hand drawn initially
F_Extract ==
  /\ m_features = NONE
  /\ m_features' = M_extractFeatures(m_landmarks)
  /\ UNCHANGED <<m_mounted, M_loadVars, m_landmarks, M_predVars, othersModel>>

NextModel ==
  \/ M_MountEffect
  \/ M_TfReadyResolve
  \/ M_SetBackendResolve
  \/ M_InitReject
  \/ M_LoadLayersResolve
  \/ M_LoadLayersReject
  \/ M_Unmount
  \/ M_PredictCall
  \/ M_DataResolve
  \/ M_DataReject

----------------------------------------------------------------------------
(* ASLCamera: the prediction effect (throttled to one per second)          *)

\* Date.now() when the page is loaded, and how long the model runs after it
Epoch == 50

C_MaxTicks == 24

\* the values useHandpose gives to setHandposeResult: a hand of 21 landmarks
\* with the prediction predictGesture computes for it, or no hand
C_HandposeResults ==
  {[isDetected |-> TRUE, landmarks |-> 21, gesture |-> g] :
     g \in {G_Pred("A", 70), G_Pred("B", 60)}}
  \cup {[isDetected |-> FALSE, landmarks |-> 0, gesture |-> NONE]}

IdleCamera ==
  /\ c_clock = Epoch
  /\ c_handposeResult = [isDetected |-> FALSE, landmarks |-> 0, gesture |-> NONE]
  /\ c_nextHandposeResult = NONE
  /\ c_lastPredictionTime = 0
  /\ c_nextLastPredictionTime = -1
  /\ c_onDetectionChanged = FALSE
  /\ c_currentPrediction = NONE
  /\ c_callTimes = <<>>

InitCamera == IdleCamera

C_Tick ==
  /\ c_clock < Epoch + C_MaxTicks
  /\ c_clock' = c_clock + 1
  /\ UNCHANGED <<c_handposeResult, c_nextHandposeResult, c_lastPredictionTime,
                 c_nextLastPredictionTime, c_onDetectionChanged,
                 c_currentPrediction, c_callTimes, othersCamera>>

\* useHandpose.detectHands: setHandposeResult with a new object
C_SetHandposeResult ==
  /\ \E r \in C_HandposeResults : c_nextHandposeResult' = r
  /\ UNCHANGED <<c_clock, c_handposeResult, c_lastPredictionTime,
                 c_nextLastPredictionTime, c_onDetectionChanged,
                 c_currentPrediction, c_callTimes, othersCamera>>

\* App renders again and passes a new handleDetection
C_ParentRender ==
  /\ ~c_onDetectionChanged
  /\ c_onDetectionChanged' = TRUE
  /\ UNCHANGED <<c_clock, c_handposeResult, c_nextHandposeResult,
                 c_lastPredictionTime, c_nextLastPredictionTime,
                 c_currentPrediction, c_callTimes, othersCamera>>

C_throttleOpenMut(now, lastPredictionTime) == now - lastPredictionTime > 1

\* now - lastPredictionTime > 1000
C_throttleOpen(now, lastPredictionTime) == now - lastPredictionTime > 10

\* A render of ASLCamera followed by its prediction effect.  The render takes
\* the queued state updates; the effect runs when one of its dependencies
\* (handposeResult, onDetection, lastPredictionTime) has changed.
C_Render ==
  LET handposeResult == IF c_nextHandposeResult = NONE THEN c_handposeResult
                        ELSE c_nextHandposeResult
      lastPredictionTime == IF c_nextLastPredictionTime = -1
                            THEN c_lastPredictionTime
                            ELSE c_nextLastPredictionTime
      now == c_clock
  IN
  /\ \/ c_nextHandposeResult # NONE
     \/ c_onDetectionChanged
     \/ lastPredictionTime # c_lastPredictionTime
  /\ c_handposeResult' = handposeResult
  /\ c_lastPredictionTime' = lastPredictionTime
  /\ c_nextHandposeResult' = NONE
  /\ c_onDetectionChanged' = FALSE
  /\ IF handposeResult.isDetected /\ handposeResult.landmarks = 21
     THEN IF C_throttleOpen(now, lastPredictionTime)
          THEN /\ c_currentPrediction' = handposeResult.gesture
               /\ c_callTimes' = Append(c_callTimes, now)
               /\ c_nextLastPredictionTime' = now
          ELSE /\ c_nextLastPredictionTime' = -1
               /\ UNCHANGED <<c_currentPrediction, c_callTimes>>
     ELSE /\ c_currentPrediction' = NONE
          /\ c_nextLastPredictionTime' = -1
          /\ UNCHANGED c_callTimes
  /\ UNCHANGED <<c_clock, othersCamera>>

NextCamera ==
  \/ C_Tick
  \/ C_SetHandposeResult
  \/ C_ParentRender
  \/ C_Render

----------------------------------------------------------------------------
(* SignToText and ASLRecognitionCamera: throttled, debounced prediction    *)

R_MaxTicks == 24

\* MediaPipe and the model finish loading within this many ticks
R_MaxStartup == 0

\* prediction.data() resolves within this many ticks
R_MaxAwait == 0

\* how late a timeout may fire: setTimeout guarantees only the minimum delay
R_MaxLate == 1

R_Letters == {"A", "B"}

IdleRecog ==
  /\ r_clock = Epoch
  /\ s_translations = <<>>
  /\ s_isSpeechEnabled = TRUE
  /\ s_dirty = FALSE
  /\ r_onDetection = [translations |-> <<>>, isSpeechEnabled |-> TRUE]
  /\ r_isMediaPipeReady = FALSE
  /\ r_isModelLoading = TRUE
  /\ r_customModel = FALSE
  /\ r_lastResultTime = 0
  /\ r_handsResult = [isDetected |-> FALSE, landmarks |-> 0]
  /\ r_dirty = FALSE
  /\ r_lastPredictionTime = 0
  /\ r_predictionTimeoutRef = 0
  /\ r_timers = {}
  /\ r_nextTimerId = 1
  /\ r_inflight = {}
  /\ r_currentPrediction = NULL
  /\ r_scheduleTimes = <<>>
  /\ r_predictTimes = <<>>
  /\ r_delivery = NONE

InitRecog == IdleRecog

R_stateVars == <<s_translations, s_isSpeechEnabled, s_dirty>>

R_hookVars == <<r_isMediaPipeReady, r_isModelLoading, r_customModel,
                r_lastResultTime, r_handsResult>>

R_timerVars == <<r_lastPredictionTime, r_predictionTimeoutRef, r_timers,
                 r_nextTimerId, r_scheduleTimes>>

\* 100 ms pass; a pending render is committed within the tick it was
\* requested in, a due timeout fires at most R_MaxLate ticks late
R_Tick ==
  /\ r_clock < Epoch + R_MaxTicks
  /\ ~s_dirty /\ ~r_dirty
  /\ (r_isMediaPipeReady /\ ~r_isModelLoading) \/ r_clock < Epoch + R_MaxStartup
  /\ \A t \in r_timers : r_clock < t.due + R_MaxLate
  /\ \A p \in r_inflight : r_clock < p.called + R_MaxAwait
  /\ r_clock' = r_clock + 1
  /\ UNCHANGED <<R_stateVars, r_onDetection, R_hookVars, r_dirty, R_timerVars,
                 r_inflight, r_currentPrediction, r_predictTimes, r_delivery,
                 othersRecog>>

\* useMediaPipeHands: camera.start() has resolved, setIsInitialized(true)
R_MediaPipeReady ==
  /\ ~r_isMediaPipeReady
  /\ r_isMediaPipeReady' = TRUE
  /\ r_dirty' = TRUE
  /\ UNCHANGED <<r_clock, R_stateVars, r_onDetection, r_isModelLoading,
                 r_customModel, r_lastResultTime, r_handsResult, R_timerVars,
                 r_inflight, r_currentPrediction, r_predictTimes, r_delivery,
                 othersRecog>>

\* useASLModel.loadModel has finished, with or without a custom model
R_ModelLoaded ==
  /\ r_isModelLoading
  /\ r_isModelLoading' = FALSE
  /\ r_customModel' \in BOOLEAN
  /\ r_dirty' = TRUE
  /\ UNCHANGED <<r_clock, R_stateVars, r_onDetection, r_isMediaPipeReady,
                 r_lastResultTime, r_handsResult, R_timerVars, r_inflight,
                 r_currentPrediction, r_predictTimes, r_delivery, othersRecog>>

\* hands.onResults: at most one result per RESULT_THROTTLE (200 ms) is
\* passed to setHandsResult, always as a new object
R_OnResults ==
  /\ ~(r_clock - r_lastResultTime < 2)
  /\ r_lastResultTime' = r_clock
  /\ \E detected \in BOOLEAN :
       r_handsResult' = [isDetected |-> detected,
                         landmarks |-> IF detected THEN 1 ELSE 0]
  /\ r_dirty' = TRUE
  /\ UNCHANGED <<r_clock, R_stateVars, r_onDetection, r_isMediaPipeReady,
                 r_isModelLoading, r_customModel, R_timerVars, r_inflight,
                 r_currentPrediction, r_predictTimes, r_delivery, othersRecog>>

\* the effect without any clearTimeout and with a 200 ms throttle
R_runEffectMut(onDetection) ==
  LET now == r_clock IN
  IF ~(r_isMediaPipeReady /\ ~r_isModelLoading)
  THEN UNCHANGED <<r_timers, r_lastPredictionTime, r_predictionTimeoutRef,
                   r_nextTimerId, r_scheduleTimes, r_currentPrediction>>
  ELSE IF ~r_handsResult.isDetected \/ r_handsResult.landmarks = 0
  THEN /\ r_currentPrediction' = NULL
       /\ UNCHANGED <<r_timers, r_lastPredictionTime, r_predictionTimeoutRef,
                      r_nextTimerId, r_scheduleTimes>>
  ELSE IF now - r_lastPredictionTime < 2
  THEN UNCHANGED <<r_timers, r_lastPredictionTime, r_predictionTimeoutRef,
                   r_nextTimerId, r_scheduleTimes, r_currentPrediction>>
  ELSE /\ r_lastPredictionTime' = now
       /\ r_timers' = r_timers \cup
            {[id |-> r_nextTimerId, due |-> now + 3, onDetection |-> onDetection]}
       /\ r_predictionTimeoutRef' = r_nextTimerId
       /\ r_nextTimerId' = r_nextTimerId + 1
       /\ r_scheduleTimes' = Append(r_scheduleTimes, now)
       /\ UNCHANGED r_currentPrediction

\* the cleanup of the prediction effect followed by the effect itself, which
\* calls makePrediction when MediaPipe is ready and the model has loaded;
\* onDetection is the handleDetection the new makePrediction captures
R_runEffect(onDetection) ==
  LET now == r_clock
      cleaned == {t \in r_timers : t.id # r_predictionTimeoutRef}
  IN
  IF ~(r_isMediaPipeReady /\ ~r_isModelLoading)
  THEN /\ r_timers' = cleaned
       /\ UNCHANGED <<r_lastPredictionTime, r_predictionTimeoutRef,
                      r_nextTimerId, r_scheduleTimes, r_currentPrediction>>
  ELSE IF ~r_handsResult.isDetected \/ r_handsResult.landmarks = 0
  THEN /\ r_timers' = cleaned
       /\ r_currentPrediction' = NULL
       /\ UNCHANGED <<r_lastPredictionTime, r_predictionTimeoutRef,
                      r_nextTimerId, r_scheduleTimes>>
  ELSE IF now - r_lastPredictionTime < 20
  THEN /\ r_timers' = cleaned
       /\ UNCHANGED <<r_lastPredictionTime, r_predictionTimeoutRef,
                      r_nextTimerId, r_scheduleTimes, r_currentPrediction>>
  ELSE /\ r_lastPredictionTime' = now
       /\ r_timers' = cleaned \cup
            {[id |-> r_nextTimerId, due |-> now + 3, onDetection |-> onDetection]}
       /\ r_predictionTimeoutRef' = r_nextTimerId
       /\ r_nextTimerId' = r_nextTimerId + 1
       /\ r_scheduleTimes' = Append(r_scheduleTimes, now)
       /\ UNCHANGED r_currentPrediction

\* React renders: SignToText when its state has changed (ASLRecognitionCamera
\* then gets a new handleDetection), ASLRecognitionCamera alone otherwise
R_Render ==
  /\ s_dirty \/ r_dirty
  /\ LET onDetection ==
           IF s_dirty
           THEN [translations |-> s_translations,
                 isSpeechEnabled |-> s_isSpeechEnabled]
           ELSE r_onDetection
     IN /\ r_onDetection' = onDetection
        /\ R_runEffect(onDetection)
  /\ s_dirty' = FALSE
  /\ r_dirty' = FALSE
  /\ UNCHANGED <<r_clock, s_translations, s_isSpeechEnabled, R_hookVars,
                 r_inflight, r_predictTimes, r_delivery, othersRecog>>

\* toggleSpeech, a click: the state update is rendered before anything else runs
S_ToggleSpeech ==
  /\ s_isSpeechEnabled' = ~s_isSpeechEnabled
  /\ LET onDetection == [translations |-> s_translations,
                         isSpeechEnabled |-> ~s_isSpeechEnabled]
     IN /\ r_onDetection' = onDetection
        /\ R_runEffect(onDetection)
  /\ s_dirty' = FALSE
  /\ r_dirty' = FALSE
  /\ UNCHANGED <<r_clock, s_translations, R_hookVars, r_inflight,
                 r_predictTimes, r_delivery, othersRecog>>

\* S_handleDetection adding a repeated letter after 2000 ms or more
S_handleDetectionMut(onDetection, letter) ==
  LET now == r_clock
      hasLast == onDetection.translations # <<>>
      lastTranslation == onDetection.translations[1]
      shouldAddNewTranslation ==
        \/ ~hasLast
        \/ lastTranslation.text # letter
        \/ now - lastTranslation.timestamp >= 20
      newTranslation == [text |-> letter, timestamp |-> now]
      added == <<newTranslation>> \o s_translations
  IN
  /\ s_translations' = IF shouldAddNewTranslation
                       THEN SubSeq(added, 1, Min2(Len(added), 15))
                       ELSE s_translations
  /\ s_dirty' = (s_dirty \/ shouldAddNewTranslation)
  /\ r_delivery' = [added |-> shouldAddNewTranslation,
                    spoke |-> shouldAddNewTranslation /\ onDetection.isSpeechEnabled,
                    soundOn |-> s_isSpeechEnabled,
                    letter |-> letter,
                    at |-> now,
                    last |-> IF s_translations # <<>> THEN s_translations[1]
                             ELSE NONE]

\* SignToText.handleDetection as captured in onDetection, called with letter
S_handleDetection(onDetection, letter) ==
  LET now == r_clock
      hasLast == onDetection.translations # <<>>
      lastTranslation == onDetection.translations[1]
      shouldAddNewTranslation ==
        \/ ~hasLast
        \/ lastTranslation.text # letter
        \/ now - lastTranslation.timestamp > 20
      newTranslation == [text |-> letter, timestamp |-> now]
      added == <<newTranslation>> \o s_translations
  IN
  /\ s_translations' = IF shouldAddNewTranslation
                       THEN SubSeq(added, 1, Min2(Len(added), 15))
                       ELSE s_translations
  /\ s_dirty' = (s_dirty \/ shouldAddNewTranslation)
  /\ r_delivery' = [added |-> shouldAddNewTranslation,
                    spoke |-> shouldAddNewTranslation /\ onDetection.isSpeechEnabled,
                    soundOn |-> s_isSpeechEnabled,
                    letter |-> letter,
                    at |-> now,
                    last |-> IF s_translations # <<>> THEN s_translations[1]
                             ELSE NONE]

\* the timeout callback: predict is called; without a custom model it returns
\* without waiting and the prediction is delivered in the same task
R_TimerFire ==
  \E t \in r_timers :
    /\ r_clock >= t.due
    /\ r_timers' = r_timers \ {t}
    /\ r_predictTimes' = Append(r_predictTimes, r_clock)
    /\ IF r_customModel
       THEN /\ r_inflight' = r_inflight \cup
                 {[called |-> r_clock, onDetection |-> t.onDetection]}
            /\ UNCHANGED <<R_stateVars, r_currentPrediction, r_delivery>>
       ELSE /\ \E letter \in R_Letters :
                 /\ r_currentPrediction' = letter
                 /\ S_handleDetection(t.onDetection, letter)
            /\ UNCHANGED <<s_isSpeechEnabled, r_inflight>>
    /\ UNCHANGED <<r_clock, r_onDetection, R_hookVars, r_dirty,
                   r_lastPredictionTime, r_predictionTimeoutRef, r_nextTimerId,
                   r_scheduleTimes, othersRecog>>

\* prediction.data() of the custom model resolves: the callback goes on with
\* the onDetection it captured when the timeout was set
R_DataResolve ==
  \E p \in r_inflight :
    /\ r_inflight' = r_inflight \ {p}
    /\ \E letter \in R_Letters :
         /\ r_currentPrediction' = letter
         /\ S_handleDetection(p.onDetection, letter)
    /\ UNCHANGED <<r_clock, s_isSpeechEnabled, r_onDetection, R_hookVars,
                   r_dirty, R_timerVars, r_predictTimes, othersRecog>>

NextRecog ==
  \/ R_Tick
  \/ R_MediaPipeReady
  \/ R_ModelLoaded
  \/ R_OnResults
  \/ R_Render
  \/ S_ToggleSpeech
  \/ R_TimerFire
  \/ R_DataResolve

\* hands.onResults while a hand stays in view: every result passed on has
\* isDetected = true
R_OnResultsSteady ==
  /\ ~(r_clock - r_lastResultTime < 2)
  /\ r_lastResultTime' = r_clock
  /\ r_handsResult' = [isDetected |-> TRUE, landmarks |-> 1]
  /\ r_dirty' = TRUE
  /\ UNCHANGED <<r_clock, R_stateVars, r_onDetection, r_isMediaPipeReady,
                 r_isModelLoading, r_customModel, R_timerVars, r_inflight,
                 r_currentPrediction, r_predictTimes, r_delivery, othersRecog>>

\* MediaPipe passes on a result at least this often (in ticks) while the
\* camera runs
R_MaxResultGap == 3

\* 100 ms pass while the camera runs
R_TickSteady ==
  /\ r_clock - r_lastResultTime < R_MaxResultGap
  /\ R_Tick

\* the camera with a hand that stays in view and a user who leaves the
\* sound button alone
NextRecogSteady ==
  \/ R_TickSteady
  \/ R_MediaPipeReady
  \/ R_ModelLoaded
  \/ R_OnResultsSteady
  \/ R_Render
  \/ R_TimerFire
  \/ R_DataResolve

----------------------------------------------------------------------------
(* useWebcam with a video element, and the Retry Camera button of ASLCamera *)

W_MaxTicks == 2

\* how late the retry timeout may fire
W_MaxLate == 1

\* startWebcam calls in one behaviour: the auto-start and the retries
W_MaxStarts == 2

W_Errors == {"Failed to access webcam",
             "Camera access denied. Please allow camera permissions."}

W_InitialState == [isReady |-> FALSE, error |-> NULL, isLoading |-> FALSE]

IdleWebcam ==
  /\ w_clock = Epoch
  /\ w_mounted = TRUE
  /\ w_effectRun = FALSE
  /\ w_state = W_InitialState
  /\ w_next = W_InitialState
  /\ w_video = 1
  /\ w_srcObject = 0
  /\ w_nextVideo = 2
  /\ w_streamRef = 0
  /\ w_live = {}
  /\ w_nextStream = 1
  /\ w_timers = {}
  /\ w_calls = {}
  /\ w_started = 0
  /\ w_done = NONE
  /\ w_stopped = FALSE

InitWebcam == IdleWebcam

\* a state setter: ignored once the component is unmounted
W_set(state, field, value) ==
  IF w_mounted THEN [state EXCEPT ![field] = value] ELSE state

\* React commits state: the video element is rendered iff error is null, and
\* a video element that is rendered again is a new element
W_commit(state, srcObject) ==
  /\ w_state' = state
  /\ IF state.error # NULL
     THEN /\ w_video' = 0
          /\ w_srcObject' = 0
          /\ UNCHANGED w_nextVideo
     ELSE IF w_video = 0
     THEN /\ w_video' = w_nextVideo
          /\ w_srcObject' = 0
          /\ w_nextVideo' = w_nextVideo + 1
     ELSE /\ w_srcObject' = srcObject
          /\ UNCHANGED <<w_video, w_nextVideo>>

W_Tick ==
  /\ w_clock < Epoch + W_MaxTicks
  /\ \A t \in w_timers : w_clock < t.due + W_MaxLate
  /\ w_clock' = w_clock + 1
  /\ UNCHANGED <<w_mounted, w_effectRun, w_state, w_next, w_video,
                 w_srcObject, w_nextVideo, w_streamRef, w_live, w_nextStream,
                 w_timers, w_calls, w_started, w_done, w_stopped, othersWebcam>>

W_Render ==
  /\ w_mounted
  /\ w_next # w_state
  /\ W_commit(w_next, w_srcObject)
  /\ UNCHANGED <<w_clock, w_mounted, w_effectRun, w_next, w_streamRef, w_live,
                 w_nextStream, w_timers, w_calls, w_started, w_done,
                 w_stopped, othersWebcam>>

\* startWebcam up to the await of getUserMedia; a call is alone when no other
\* call, timeout or stopWebcam overlaps it
W_startWebcam(retry, delay, timers) ==
  /\ w_started < W_MaxStarts
  /\ w_started' = w_started + 1
  /\ w_stopped' = FALSE
  /\ w_next' = W_set(W_set(w_next, "isLoading", TRUE), "error", NULL)
  /\ w_live' = w_live \ {w_streamRef}
  /\ w_calls' = {[c EXCEPT !.alone = FALSE] : c \in w_calls} \cup
       {[id |-> w_started + 1, pc |-> "getUserMedia", retry |-> retry,
         delay |-> delay, alone |-> (w_calls = {} /\ timers = {}),
         stream |-> 0]}

\* the auto-start effect of ASLCamera
W_MountEffect ==
  /\ w_mounted /\ ~w_effectRun
  /\ w_effectRun' = TRUE
  /\ W_startWebcam(FALSE, 0, w_timers)
  /\ UNCHANGED <<w_clock, w_mounted, w_state, w_video, w_srcObject,
                 w_nextVideo, w_streamRef, w_nextStream, w_timers, w_done,
                 othersWebcam>>

\* the end of a startWebcam call: finally setIsLoading(false)
W_finish(c, stream, state, played) ==
  /\ w_next' = W_set(state, "isLoading", FALSE)
  /\ w_calls' = w_calls \ {c}
  /\ w_done' = [retry |-> c.retry, delay |-> c.delay, alone |-> c.alone,
                played |-> played, stream |-> stream]

\* the catch block of startWebcam
W_catch(c, message) ==
  W_finish(c, c.stream,
           W_set(W_set(w_next, "error", message), "isReady", FALSE), FALSE)

\* getUserMedia resolves with a new stream
W_GetUserMediaResolve ==
  \E c \in w_calls :
    /\ c.pc = "getUserMedia"
    /\ w_streamRef' = w_nextStream
    /\ w_live' = w_live \cup {w_nextStream}
    /\ w_nextStream' = w_nextStream + 1
    /\ IF w_video # 0
       THEN /\ w_srcObject' = w_nextStream
            /\ w_calls' = (w_calls \ {c}) \cup
                 {[c EXCEPT !.pc = "loadedmetadata", !.stream = w_nextStream]}
            /\ UNCHANGED <<w_next, w_done>>
       ELSE /\ W_finish(c, w_nextStream, w_next, FALSE)
            /\ UNCHANGED w_srcObject
    /\ UNCHANGED <<w_clock, w_mounted, w_effectRun, w_state, w_video,
                   w_nextVideo, w_timers, w_started, w_stopped, othersWebcam>>

\* getUserMedia rejects
W_GetUserMediaReject ==
  \E c \in w_calls, message \in W_Errors :
    /\ c.pc = "getUserMedia"
    /\ W_catch(c, message)
    /\ UNCHANGED <<w_clock, w_mounted, w_effectRun, w_state, w_video,
                   w_srcObject, w_nextVideo, w_streamRef, w_live, w_nextStream,
                   w_timers, w_started, w_stopped, othersWebcam>>

\* loadedmetadata: the call goes on to videoRef.current.play(), which throws
\* when the video element is no longer rendered
W_LoadedMetadata ==
  \E c \in w_calls :
    /\ c.pc = "loadedmetadata"
    /\ IF w_video # 0
       THEN /\ w_calls' = (w_calls \ {c}) \cup {[c EXCEPT !.pc = "play"]}
            /\ UNCHANGED <<w_next, w_done>>
       ELSE W_catch(c, "Failed to access webcam")
    /\ UNCHANGED <<w_clock, w_mounted, w_effectRun, w_state, w_video,
                   w_srcObject, w_nextVideo, w_streamRef, w_live, w_nextStream,
                   w_timers, w_started, w_stopped, othersWebcam>>

\* the error event of the video element, or play() rejects
W_VideoReject ==
  \E c \in w_calls :
    /\ c.pc \in {"loadedmetadata", "play"}
    /\ W_catch(c, "Failed to access webcam")
    /\ UNCHANGED <<w_clock, w_mounted, w_effectRun, w_state, w_video,
                   w_srcObject, w_nextVideo, w_streamRef, w_live, w_nextStream,
                   w_timers, w_started, w_stopped, othersWebcam>>

\* play() resolves without the final setIsReady(true)
W_PlayResolveMut ==
  \E c \in w_calls :
    /\ c.pc = "play"
    /\ W_finish(c, c.stream, w_next, TRUE)
    /\ UNCHANGED <<w_clock, w_mounted, w_effectRun, w_state, w_video,
                   w_srcObject, w_nextVideo, w_streamRef, w_live, w_nextStream,
                   w_timers, w_started, w_stopped, othersWebcam>>

\* play() resolves: setIsReady(true)
W_PlayResolve ==
  \E c \in w_calls :
    /\ c.pc = "play"
    /\ W_finish(c, c.stream, W_set(w_next, "isReady", TRUE), TRUE)
    /\ UNCHANGED <<w_clock, w_mounted, w_effectRun, w_state, w_video,
                   w_srcObject, w_nextVideo, w_streamRef, w_live, w_nextStream,
                   w_timers, w_started, w_stopped, othersWebcam>>

\* handleRetry, a click on the button of the error branch: stopWebcam, then
\* setTimeout(startWebcam, 100); the state update is rendered with the click
W_RetryClick ==
  /\ w_mounted
  /\ w_state.error # NULL
  /\ w_started + Cardinality(w_timers) < W_MaxStarts
  /\ w_live' = w_live \ {w_streamRef}
  /\ w_streamRef' = 0
  /\ w_next' = W_set(w_next, "isReady", FALSE)
  /\ W_commit(w_next', 0)
  /\ w_timers' = w_timers \cup
       {[id |-> w_started + Cardinality(w_timers) + 1,
         clicked |-> w_clock, due |-> w_clock + 1]}
  /\ w_calls' = {[c EXCEPT !.alone = FALSE] : c \in w_calls}
  /\ w_stopped' = TRUE
  /\ UNCHANGED <<w_clock, w_mounted, w_effectRun, w_nextStream, w_started,
                 w_done, othersWebcam>>

\* the timeout of handleRetry fires: startWebcam()
W_RetryTimer ==
  \E t \in w_timers :
    /\ w_clock >= t.due
    /\ w_timers' = w_timers \ {t}
    /\ W_startWebcam(TRUE, w_clock - t.clicked, w_timers \ {t})
    /\ UNCHANGED <<w_clock, w_mounted, w_effectRun, w_state, w_video,
                   w_srcObject, w_nextVideo, w_streamRef, w_nextStream, w_done,
                   othersWebcam>>

\* ASLCamera unmounts: the cleanups call stopWebcam, the video element goes
W_Unmount ==
  /\ w_mounted
  /\ w_effectRun
  /\ w_mounted' = FALSE
  /\ w_live' = w_live \ {w_streamRef}
  /\ w_streamRef' = 0
  /\ w_video' = 0
  /\ w_srcObject' = 0
  /\ w_calls' = {[c EXCEPT !.alone = FALSE] : c \in w_calls}
  /\ w_stopped' = TRUE
  /\ UNCHANGED <<w_clock, w_effectRun, w_state, w_next, w_nextVideo,
                 w_nextStream, w_timers, w_started, w_done, othersWebcam>>

NextWebcam ==
  \/ W_Tick
  \/ W_Render
  \/ W_MountEffect
  \/ W_GetUserMediaResolve
  \/ W_GetUserMediaReject
  \/ W_LoadedMetadata
  \/ W_VideoReject
  \/ W_PlayResolve
  \/ W_RetryClick
  \/ W_RetryTimer
  \/ W_Unmount

----------------------------------------------------------------------------
(* TextToSign: handleSubmit shows the sign of the first letter              *)

\* delayed handleSubmit calls pending at one time
T_MaxTimers == 1

\* Object.keys(mockSignData)
T_mockSignDataKeys ==
  <<"A", "B", "C", "D", "E", "F", "G", "H", "I", "J", "K", "L", "M",
    "N", "O", "P", "Q", "R", "S", "T", "U", "V", "W", "X", "Y", "Z">>

T_lowerCase ==
  <<"a", "b", "c", "d", "e", "f", "g", "h", "i", "j", "k", "l", "m",
    "n", "o", "p", "q", "r", "s", "t", "u", "v", "w", "x", "y", "z">>

\* String.prototype.toUpperCase of one character
T_toUpperCase(ch) ==
  IF \E i \in 1..26 : T_lowerCase[i] = ch
  THEN T_mockSignDataKeys[CHOOSE i \in 1..26 : T_lowerCase[i] = ch]
  ELSE IF ch = "ß" THEN "SS"
  ELSE ch

T_whiteSpace == {" ", "\t"}

RECURSIVE T_trimStart(_)
T_trimStart(text) ==
  IF text # <<>> /\ Head(text) \in T_whiteSpace
  THEN T_trimStart(Tail(text))
  ELSE text

RECURSIVE T_trimEnd(_)
T_trimEnd(text) ==
  IF text # <<>> /\ text[Len(text)] \in T_whiteSpace
  THEN T_trimEnd(SubSeq(text, 1, Len(text) - 1))
  ELSE text

\* String.prototype.trim
T_trim(text) == T_trimEnd(T_trimStart(text))

\* values of Math.random(), in hundredths
T_Randoms == {0, 99}

\* the texts typed into the input field
T_Texts == {<<>>, <<" ">>, <<"\t", " ">>, <<"a">>, <<" ", "b", " ">>,
            <<"Z", "1">>, <<"1", "a">>, <<"ß">>}

\* texts of suggestionData
T_Suggestions == {<<"H", "e", "l", "l", "o">>, <<"Y", "e", "s">>}

IdleText ==
  /\ t_inputText = <<>>
  /\ t_currentSign = NULL
  /\ t_timers = <<>>
  /\ t_submitted = NONE
  /\ t_set = <<>>
  /\ t_isListening = FALSE
  /\ t_recognition = NONE

InitText == IdleText

\* handleSubmit without toUpperCase
T_handleSubmitMut(inputText, random) ==
  /\ t_submitted' = [text |-> inputText, before |-> t_currentSign]
  /\ IF T_trim(inputText) # <<>>
     THEN LET firstLetter == Head(T_trim(inputText)) IN
          IF \E i \in 1..26 : T_mockSignDataKeys[i] = firstLetter
          THEN t_currentSign' = firstLetter
          ELSE t_currentSign' =
                 T_mockSignDataKeys[((random * Len(T_mockSignDataKeys)) \div 100) + 1]
     ELSE UNCHANGED t_currentSign

\* handleSubmit as rendered with inputText; random is Math.random()
T_handleSubmit(inputText, random) ==
  /\ t_submitted' = [text |-> inputText, before |-> t_currentSign]
  /\ IF T_trim(inputText) # <<>>
     THEN LET firstLetter == T_toUpperCase(Head(T_trim(inputText))) IN
          IF \E i \in 1..26 : T_mockSignDataKeys[i] = firstLetter
          THEN t_currentSign' = firstLetter
          ELSE t_currentSign' =
                 T_mockSignDataKeys[((random * Len(T_mockSignDataKeys)) \div 100) + 1]
     ELSE UNCHANGED t_currentSign

\* handleInputChange: typing renders the new inputText
T_InputChange ==
  \E text \in T_Texts :
    /\ t_inputText' = text
    /\ UNCHANGED <<t_currentSign, t_timers, t_submitted, t_set, t_isListening,
                   t_recognition, othersText>>

\* the form is submitted
T_Submit ==
  \E random \in T_Randoms :
    /\ T_handleSubmit(t_inputText, random)
    /\ UNCHANGED <<t_inputText, t_timers, t_set, t_isListening, t_recognition,
                   othersText>>

\* handleSuggestionClick: the timeout calls the handleSubmit of this render,
\* which sees the inputText from before the click
T_SuggestionClick ==
  \E text \in T_Suggestions :
    /\ Len(t_timers) < T_MaxTimers
    /\ t_inputText' = text
    /\ t_timers' = Append(t_timers, t_inputText)
    /\ t_set' = Append(t_set, text)
    /\ UNCHANGED <<t_currentSign, t_submitted, t_isListening, t_recognition,
                   othersText>>

\* the timeout of handleSuggestionClick or of onresult fires
T_DelayedSubmit ==
  \E random \in T_Randoms :
    /\ t_timers # <<>>
    /\ T_handleSubmit(Head(t_timers), random)
    /\ t_timers' = Tail(t_timers)
    /\ t_set' = Tail(t_set)
    /\ UNCHANGED <<t_inputText, t_isListening, t_recognition, othersText>>

\* what the speech recognition hears
T_Transcripts == {<<"n", "o">>}

\* toggleSpeechRecognition: stops the recognition when listening, else starts
\* one whose onresult is created in this render
T_ToggleSpeech ==
  /\ IF t_isListening
     THEN /\ t_recognition' = NONE
          /\ t_isListening' = FALSE
     ELSE /\ t_recognition' = [inputText |-> t_inputText]
          /\ t_isListening' = TRUE
  /\ UNCHANGED <<t_inputText, t_currentSign, t_timers, t_submitted, t_set,
                 othersText>>

\* onresult: setInputText(transcript); a final result schedules the
\* handleSubmit of the render in which the recognition was started
T_SpeechResult ==
  \E transcript \in T_Transcripts, isFinal \in BOOLEAN :
    /\ t_recognition # NONE
    /\ t_inputText' = transcript
    /\ IF isFinal
       THEN /\ Len(t_timers) < T_MaxTimers
            /\ t_timers' = Append(t_timers, t_recognition.inputText)
            /\ t_set' = Append(t_set, transcript)
       ELSE UNCHANGED <<t_timers, t_set>>
    /\ UNCHANGED <<t_currentSign, t_submitted, t_isListening, t_recognition,
                   othersText>>

\* onend and onerror: the recognition is over, setIsListening(false)
T_SpeechEnd ==
  /\ t_recognition # NONE
  /\ t_recognition' = NONE
  /\ t_isListening' = FALSE
  /\ UNCHANGED <<t_inputText, t_currentSign, t_timers, t_submitted, t_set,
                 othersText>>

NextText ==
  \/ T_InputChange
  \/ T_Submit
  \/ T_SuggestionClick
  \/ T_DelayedSubmit

\* TextToSign used through the suggestions and the microphone only
NextTextSpeech ==
  \/ T_Submit
  \/ T_SuggestionClick
  \/ T_DelayedSubmit
  \/ T_ToggleSpeech
  \/ T_SpeechResult
  \/ T_SpeechEnd

----------------------------------------------------------------------------
(* useHandDetection: skin colour and motion in the centre of the frame     *)

\* calls of detectHandInFrame in one behaviour
D_MaxCalls == 3

\* the size of the video: the canvas is 30 x 30
D_videoWidth == 30

D_videoHeight == 30

D_canvasWidth == Min2(IF D_videoWidth = 0 THEN 640 ELSE D_videoWidth, 320)

D_canvasHeight == Min2(IF D_videoHeight = 0 THEN 480 ELSE D_videoHeight, 240)

D_centerX == D_canvasWidth \div 2

D_centerY == D_canvasHeight \div 2

\* Math.min(canvas.width, canvas.height) * 0.3
D_searchRadius == (Min2(D_canvasWidth, D_canvasHeight) * 3) \div 10

\* the pixels the two loops visit
D_search ==
  {<<x, y>> \in (0..(D_canvasWidth - 1)) \X (0..(D_canvasHeight - 1)) :
     /\ y >= Max2(0, D_centerY - D_searchRadius)
     /\ y < Min2(D_canvasHeight, D_centerY + D_searchRadius)
     /\ x >= Max2(0, D_centerX - D_searchRadius)
     /\ x < Min2(D_canvasWidth, D_centerX + D_searchRadius)}

D_dark == <<30, 30, 30>>

D_skinA == <<200, 120, 80>>

D_skinB == <<150, 90, 60>>

\* the frames shown to the camera: a dark frame whose first n pixels of the
\* search area (row by row) are skin in vertical stripes of two tones, and a
\* frame that is one skin tone all over
D_Frames ==
  {[texture |-> "stripes", n |-> n, phase |-> ph] :
     n \in {50, 51, 97, 129, 130}, ph \in {0, 1}}
  \cup {[texture |-> "stripes", n |-> 0, phase |-> 0],
        [texture |-> "flat", n |-> 0, phase |-> 0]}

\* imageData.data at pixel (x, y): red, green, blue
D_data(frame, x, y) ==
  LET x0 == Max2(0, D_centerX - D_searchRadius)
      y0 == Max2(0, D_centerY - D_searchRadius)
      side == Min2(D_canvasWidth, D_centerX + D_searchRadius) - x0
  IN IF frame.texture = "flat" THEN D_skinA
     ELSE IF <<x, y>> \in D_search /\ (y - y0) * side + (x - x0) < frame.n
     THEN (IF (x + frame.phase) % 2 = 0 THEN D_skinA ELSE D_skinB)
     ELSE D_dark

D_absDiff(p, q) == Abs(p[1] - q[1]) + Abs(p[2] - q[2]) + Abs(p[3] - q[3])

D_isValidSkin(p) ==
  LET r == p[1]
      g == p[2]
      b == p[3]
  IN /\ r > 95 /\ g > 40 /\ b > 20
     /\ r > g /\ r > b
     /\ Max2(r, Max2(g, b)) - Min2(r, Min2(g, b)) > 15
     /\ Abs(r - g) > 15
     /\ r < 250 /\ g < 250 /\ b < 250

\* the sum over the 7 x 7 neighbourhood, from its k-th pixel on
RECURSIVE D_colorVariationFrom(_, _, _, _)
D_colorVariationFrom(frame, x, y, k) ==
  IF k > 49 THEN 0
  ELSE LET checkX == x + ((k - 1) % 7) - 3
           checkY == y + ((k - 1) \div 7) - 3
       IN (IF /\ checkX >= 0 /\ checkX < D_canvasWidth
              /\ checkY >= 0 /\ checkY < D_canvasHeight
           THEN D_absDiff(D_data(frame, x, y), D_data(frame, checkX, checkY))
           ELSE 0)
          + D_colorVariationFrom(frame, x, y, k + 1)

\* handPixels after the loops over a frame
D_handPixels ==
  [frame \in D_Frames |->
     Cardinality({p \in D_search :
        /\ D_isValidSkin(D_data(frame, p[1], p[2]))
        /\ D_colorVariationFrom(frame, p[1], p[2], 1) > 200})]

\* motionPixels after the loops over a frame, given the previous frame
D_motionPixels ==
  [prev \in D_Frames, frame \in D_Frames |->
     Cardinality({p \in D_search :
        D_absDiff(D_data(frame, p[1], p[2]), D_data(prev, p[1], p[2])) > 30})]

\* letters detectSign resolves with
D_Letters == {"A", "C"}

IdleDetection ==
  /\ d_clock = Epoch
  /\ d_calls = 0
  /\ d_previousFrame = NONE
  /\ d_handDetection = [isDetected |-> FALSE, confidence |-> [num |-> 0, den |-> 1]]
  /\ d_lastDetection = 0
  /\ d_signPending = 0
  /\ d_detectedLetter = NULL
  /\ d_analysis = NONE

InitDetection == IdleDetection

\* the detection criteria with handPixels >= 50
D_isHandDetectedMut(handPixels, motionPixels, totalSearchPixels, hasPrevious) ==
  /\ totalSearchPixels # 0
  /\ 100 * handPixels > 8 * totalSearchPixels
  /\ 10 * handPixels < 4 * totalSearchPixels
  /\ hasPrevious /\ 100 * motionPixels > 5 * totalSearchPixels
  /\ handPixels >= 50

\* handRatio > 0.08 && handRatio < 0.4 && hasMotion && handPixels > 50; with
\* totalSearchPixels = 0 the ratios are NaN and every comparison is false
D_isHandDetected(handPixels, motionPixels, totalSearchPixels, hasPrevious) ==
  /\ totalSearchPixels # 0
  /\ 100 * handPixels > 8 * totalSearchPixels
  /\ 10 * handPixels < 4 * totalSearchPixels
  /\ hasPrevious /\ 100 * motionPixels > 5 * totalSearchPixels
  /\ handPixels > 50

\* isHandDetected ? Math.min(handRatio * 3, 0.9) : 0
D_confidence(isHandDetected, handPixels, totalSearchPixels) ==
  IF ~isHandDetected THEN [num |-> 0, den |-> 1]
  ELSE IF 10 * 3 * handPixels < 9 * totalSearchPixels
  THEN [num |-> 3 * handPixels, den |-> totalSearchPixels]
  ELSE [num |-> 9, den |-> 10]

\* the interval callback detectHandInFrame, 300 ms after the previous one,
\* with the video not ready or showing frame
D_DetectHandInFrame ==
  \E ready \in BOOLEAN, frame \in D_Frames :
    /\ d_calls < D_MaxCalls
    /\ d_calls' = d_calls + 1
    /\ d_clock' = d_clock + 3
    /\ IF ~ready
       THEN UNCHANGED <<d_previousFrame, d_handDetection, d_lastDetection,
                        d_signPending, d_analysis>>
       ELSE LET hasPrevious == d_previousFrame # NONE
                handPixels == IF hasPrevious THEN D_handPixels[frame] ELSE 0
                motionPixels ==
                  IF hasPrevious THEN D_motionPixels[d_previousFrame, frame] ELSE 0
                totalSearchPixels ==
                  IF hasPrevious THEN Cardinality(D_search) ELSE 0
                isHandDetected ==
                  D_isHandDetected(handPixels, motionPixels, totalSearchPixels,
                                   hasPrevious)
                confidence ==
                  D_confidence(isHandDetected, handPixels, totalSearchPixels)
                now == d_clock'
                trigger == /\ isHandDetected
                           /\ 2 * confidence.num > confidence.den
                           /\ now - d_lastDetection > 30
            IN /\ d_previousFrame' = frame
               /\ d_handDetection' = [isDetected |-> isHandDetected,
                                      confidence |-> confidence]
               /\ d_analysis' = [hasPrevious |-> hasPrevious,
                                 handPixels |-> handPixels,
                                 motionPixels |-> motionPixels,
                                 totalSearchPixels |-> totalSearchPixels]
               /\ d_lastDetection' = IF trigger THEN now ELSE d_lastDetection
               /\ d_signPending' = IF trigger THEN d_signPending + 1
                                   ELSE d_signPending
    /\ UNCHANGED <<d_detectedLetter, othersDetection>>

\* the promise of detectSign resolves: setDetectedLetter
D_DetectSignResolve ==
  \E letter \in D_Letters :
    /\ d_signPending > 0
    /\ d_signPending' = d_signPending - 1
    /\ d_detectedLetter' = letter
    /\ UNCHANGED <<d_clock, d_calls, d_previousFrame, d_handDetection,
                   d_lastDetection, d_analysis, othersDetection>>

NextDetection ==
  \/ D_DetectHandInFrame
  \/ D_DetectSignResolve

----------------------------------------------------------------------------
(* ASLRecognitionCamera: startWebcam, cleanupStream and their effects      *)

\* getUserMedia requests in one behaviour
V_MaxRequests == 4

\* clicks on Retry Camera in one behaviour
V_MaxRetries == 1

V_Errors == {"Unable to access webcam.",
             "Camera access denied. Please allow camera permissions."}

V_InitialState == [stream |-> 0, videoError |-> NULL, isVideoReady |-> FALSE,
                   retryCount |-> 0]

IdleVideo ==
  /\ v_mounted = TRUE
  /\ v_effectsRun = FALSE
  /\ v_state = V_InitialState
  /\ v_next = V_InitialState
  /\ v_srcObject = 0
  /\ v_live = {}
  /\ v_nextStream = 1
  /\ v_calls = {}
  /\ v_requests = 0
  /\ v_failed = FALSE

InitVideo == IdleVideo

\* the video element is rendered iff videoError is null
V_videoRef(state) == v_mounted /\ state.videoError = NULL

\* cleanupStream as created in a render whose stream state is stream, run
\* when env is the live streams, the queued state and the srcObject; the
\* result is the same three after the call
V_cleanupStream(stream, env, hasVideo) ==
  [live |-> IF stream # 0 THEN env.live \ {stream} ELSE env.live,
   next |-> IF stream # 0 /\ v_mounted
            THEN [env.next EXCEPT !.stream = 0] ELSE env.next,
   srcObject |-> IF hasVideo THEN 0 ELSE env.srcObject]

\* startWebcam up to the await of getUserMedia, as created in a render whose
\* stream state is stream
V_startWebcam(stream, env, hasVideo) ==
  LET cleaned == V_cleanupStream(stream, env, hasVideo)
  IN [cleaned EXCEPT !.next = [@ EXCEPT !.videoError = NULL,
                                        !.isVideoReady = FALSE]]

\* the first render's effects: the mount effect calls startWebcam
V_MountEffect ==
  /\ v_mounted /\ ~v_effectsRun
  /\ v_effectsRun' = TRUE
  /\ LET env == [live |-> v_live, next |-> v_next, srcObject |-> v_srcObject]
         after == V_startWebcam(v_state.stream, env, V_videoRef(v_state))
     IN /\ v_live' = after.live
        /\ v_next' = after.next
        /\ v_srcObject' = after.srcObject
  /\ v_calls' = v_calls \cup {[id |-> v_requests + 1, pc |-> "getUserMedia",
                               stream |-> 0]}
  /\ v_requests' = v_requests + 1
  /\ UNCHANGED <<v_mounted, v_state, v_nextStream, v_failed, othersVideo>>

\* React commits the state new. When stream or retryCount has changed,
\* cleanupStream and startWebcam are new functions and the effects run again:
\* the cleanups of both effects call the cleanupStream of the previous
\* render, then the mount effect calls the new startWebcam
V_commit(new) ==
  LET hasVideo == V_videoRef(new)
      srcObject == IF hasVideo /\ V_videoRef(v_state) THEN v_srcObject ELSE 0
      env == [live |-> v_live, next |-> new, srcObject |-> srcObject]
      rerun == new.stream # v_state.stream \/ new.retryCount # v_state.retryCount
      cleaned == IF new.stream # v_state.stream
                 THEN V_cleanupStream(v_state.stream, env, hasVideo)
                 ELSE env
      after == V_startWebcam(new.stream,
                             V_cleanupStream(v_state.stream, cleaned, hasVideo),
                             hasVideo)
  IN
  /\ v_state' = new
  /\ IF rerun
     THEN /\ v_requests < V_MaxRequests
          /\ v_live' = after.live
          /\ v_next' = after.next
          /\ v_srcObject' = after.srcObject
          /\ v_calls' = v_calls \cup
               {[id |-> v_requests + 1, pc |-> "getUserMedia", stream |-> 0]}
          /\ v_requests' = v_requests + 1
     ELSE /\ v_next' = new
          /\ v_srcObject' = srcObject
          /\ UNCHANGED <<v_live, v_calls, v_requests>>

V_Render ==
  /\ v_mounted /\ v_effectsRun
  /\ v_next # v_state
  /\ V_commit(v_next)
  /\ UNCHANGED <<v_mounted, v_effectsRun, v_nextStream, v_failed, othersVideo>>

\* getUserMedia resolves with a new stream: stopped at once when there is no
\* video element, else setStream and attached, and play() is awaited
V_GetUserMediaResolve ==
  \E c \in v_calls :
    /\ c.pc = "getUserMedia"
    /\ v_nextStream' = v_nextStream + 1
    /\ IF ~V_videoRef(v_state)
       THEN /\ v_calls' = v_calls \ {c}
            /\ UNCHANGED <<v_live, v_next, v_srcObject>>
       ELSE /\ v_live' = v_live \cup {v_nextStream}
            /\ v_next' = [v_next EXCEPT !.stream = v_nextStream]
            /\ v_srcObject' = v_nextStream
            /\ v_calls' = (v_calls \ {c}) \cup
                 {[c EXCEPT !.pc = "play", !.stream = v_nextStream]}
    /\ UNCHANGED <<v_mounted, v_effectsRun, v_state, v_requests, v_failed,
                   othersVideo>>

\* getUserMedia rejects
V_GetUserMediaReject ==
  \E c \in v_calls, message \in V_Errors :
    /\ c.pc = "getUserMedia"
    /\ v_calls' = v_calls \ {c}
    /\ v_next' = IF v_mounted THEN [v_next EXCEPT !.videoError = message]
                 ELSE v_next
    /\ v_failed' = TRUE
    /\ UNCHANGED <<v_mounted, v_effectsRun, v_state, v_srcObject, v_live,
                   v_nextStream, v_requests, othersVideo>>

\* the loadedmetadata event of the playing video: setIsVideoReady(true)
V_LoadedMetadata ==
  /\ v_mounted
  /\ v_srcObject # 0
  /\ ~v_next.isVideoReady
  /\ v_next' = [v_next EXCEPT !.isVideoReady = TRUE]
  /\ UNCHANGED <<v_mounted, v_effectsRun, v_state, v_srcObject, v_live,
                 v_nextStream, v_calls, v_requests, v_failed, othersVideo>>

\* video.play() resolves
V_PlayResolve ==
  \E c \in v_calls :
    /\ c.pc = "play"
    /\ v_srcObject = c.stream
    /\ v_calls' = v_calls \ {c}
    /\ UNCHANGED <<v_mounted, v_effectsRun, v_state, v_next, v_srcObject,
                   v_live, v_nextStream, v_requests, v_failed, othersVideo>>

\* video.play() rejects: the stream was taken off the element or replaced
V_PlayReject ==
  \E c \in v_calls :
    /\ c.pc = "play"
    /\ v_srcObject # c.stream
    /\ v_calls' = v_calls \ {c}
    /\ v_next' = IF v_mounted
                 THEN [v_next EXCEPT !.videoError = "Failed to start video playback"]
                 ELSE v_next
    /\ v_failed' = TRUE
    /\ UNCHANGED <<v_mounted, v_effectsRun, v_state, v_srcObject, v_live,
                   v_nextStream, v_requests, othersVideo>>

\* handleRetry, a click on the button of the error branch, rendered at once
V_RetryClick ==
  /\ v_mounted /\ v_effectsRun
  /\ v_state.videoError # NULL
  /\ v_next.retryCount < V_MaxRetries
  /\ V_commit([v_next EXCEPT !.retryCount = @ + 1])
  /\ UNCHANGED <<v_mounted, v_effectsRun, v_nextStream, v_failed, othersVideo>>

\* the component unmounts: the cleanups of both effects call the
\* cleanupStream of the last render
V_Unmount ==
  /\ v_mounted /\ v_effectsRun
  /\ v_mounted' = FALSE
  /\ v_live' = v_live \ {v_state.stream}
  /\ v_srcObject' = 0
  /\ UNCHANGED <<v_effectsRun, v_state, v_next, v_nextStream, v_calls,
                 v_requests, v_failed, othersVideo>>

NextVideo ==
  \/ V_MountEffect
  \/ V_Render
  \/ V_GetUserMediaResolve
  \/ V_GetUserMediaReject
  \/ V_LoadedMetadata
  \/ V_PlayResolve
  \/ V_PlayReject
  \/ V_RetryClick
  \/ V_Unmount

----------------------------------------------------------------------------
(* App: the prediction history, and the histories of both pipelines        *)

\* calls of onDetection in one behaviour, both pipelines together
H_MaxCalls == 3

\* how long the histories are followed
H_MaxTicks == 2

\* what predictGesture returns to ASLCamera
A_Predictions ==
  {G_Pred("A", 70), G_Pred("A", 60), G_Pred("B", 60), G_Pred("V", 60),
   G_Pred("D", 80)}

IdleApp ==
  /\ a_clock = Epoch
  /\ a_predictions = <<>>
  /\ a_onDetection = <<>>
  /\ a_dirty = FALSE
  /\ a_currentPrediction = NONE
  /\ a_calls = 0

\* a history of n entries of SignToText as n detections more than 2 seconds
\* apart leave it, the newest 1900 ms old
H_translations(n) ==
  [i \in 1..n |-> [text |-> IF i % 2 = 1 THEN "A" ELSE "B",
                   timestamp |-> Epoch - 19 - 21 * (i - 1)]]

\* the same for App
H_predictions(n) ==
  [i \in 1..n |-> [letter |-> IF i % 2 = 1 THEN "A" ELSE "D",
                   confidence |-> IF i % 2 = 1 THEN 70 ELSE 80,
                   timestamp |-> Epoch - 19 - 21 * (i - 1)]]

\* both components have been running for a while
InitHistory ==
  /\ r_clock = Epoch
  /\ s_translations \in {H_translations(n) : n \in {0, 14, 15}}
  /\ s_isSpeechEnabled = TRUE
  /\ s_dirty = FALSE
  /\ r_onDetection = [translations |-> s_translations, isSpeechEnabled |-> TRUE]
  /\ r_isMediaPipeReady = TRUE
  /\ r_isModelLoading = FALSE
  /\ r_customModel = FALSE
  /\ r_lastResultTime = 0
  /\ r_handsResult = [isDetected |-> FALSE, landmarks |-> 0]
  /\ r_dirty = FALSE
  /\ r_lastPredictionTime = 0
  /\ r_predictionTimeoutRef = 0
  /\ r_timers = {}
  /\ r_nextTimerId = 1
  /\ r_inflight = {}
  /\ r_currentPrediction = NULL
  /\ r_scheduleTimes = <<>>
  /\ r_predictTimes = <<>>
  /\ r_delivery = NONE
  /\ a_clock = Epoch
  /\ a_predictions \in {H_predictions(n) : n \in {0, 49, 50}}
  /\ a_onDetection = a_predictions
  /\ a_dirty = FALSE
  /\ a_currentPrediction = NONE
  /\ a_calls = 0

\* App.handleDetection without the slice
A_handleDetectionMut(predictions, prediction) ==
  LET now == a_clock
      hasLast == predictions # <<>>
      lastPrediction == predictions[1]
      shouldAdd ==
        \/ ~hasLast
        \/ lastPrediction.letter # prediction.letter
        \/ now - lastPrediction.timestamp > 20
      newPrediction == [letter |-> prediction.letter,
                        confidence |-> prediction.confidence,
                        timestamp |-> now]
      added == <<newPrediction>> \o a_predictions
  IN
  IF shouldAdd /\ prediction.confidence > 60
  THEN /\ a_predictions' = added
       /\ a_dirty' = TRUE
  ELSE UNCHANGED <<a_predictions, a_dirty>>

\* App.handleDetection of the render that saw predictions, called with
\* prediction
A_handleDetection(predictions, prediction) ==
  LET now == a_clock
      hasLast == predictions # <<>>
      lastPrediction == predictions[1]
      shouldAdd ==
        \/ ~hasLast
        \/ lastPrediction.letter # prediction.letter
        \/ now - lastPrediction.timestamp > 20
      newPrediction == [letter |-> prediction.letter,
                        confidence |-> prediction.confidence,
                        timestamp |-> now]
      added == <<newPrediction>> \o a_predictions
  IN
  IF shouldAdd /\ prediction.confidence > 60
  THEN /\ a_predictions' = SubSeq(added, 1, Min2(Len(added), 50))
       /\ a_dirty' = TRUE
  ELSE UNCHANGED <<a_predictions, a_dirty>>

\* the prediction display showing every prediction
A_overlayShownMut(currentPrediction) == currentPrediction # NONE

\* the prediction display of ASLCamera:
\* currentPrediction && currentPrediction.confidence > 0.6
A_overlayShown(currentPrediction) ==
  /\ currentPrediction # NONE
  /\ currentPrediction.confidence > 60

\* the prediction effect of ASLCamera, past its throttle, with a hand:
\* setCurrentPrediction(prediction); onDetection(prediction)
A_OnDetection ==
  \E prediction \in A_Predictions :
    /\ a_calls + Len(r_predictTimes) < H_MaxCalls
    /\ a_calls' = a_calls + 1
    /\ a_currentPrediction' = prediction
    /\ A_handleDetection(a_onDetection, prediction)
    /\ UNCHANGED <<a_clock, a_onDetection, othersApp>>

\* the prediction effect with no hand: setCurrentPrediction(null)
A_NoHand ==
  /\ a_currentPrediction # NONE
  /\ a_currentPrediction' = NONE
  /\ UNCHANGED <<a_clock, a_predictions, a_onDetection, a_dirty, a_calls,
                 othersApp>>

\* App renders: ASLCamera gets a handleDetection that sees the new predictions
A_Render ==
  /\ a_dirty
  /\ a_dirty' = FALSE
  /\ a_onDetection' = a_predictions
  /\ UNCHANGED <<a_clock, a_predictions, a_currentPrediction, a_calls,
                 othersApp>>

\* ASLRecognitionCamera delivers a letter to the handleDetection it was given
H_Detect ==
  \E letter \in R_Letters :
    /\ a_calls + Len(r_predictTimes) < H_MaxCalls
    /\ r_predictTimes' = Append(r_predictTimes, r_clock)
    /\ r_currentPrediction' = letter
    /\ S_handleDetection(r_onDetection, letter)
    /\ UNCHANGED <<r_clock, s_isSpeechEnabled, r_onDetection, R_hookVars,
                   r_dirty, r_lastPredictionTime, r_predictionTimeoutRef,
                   r_timers, r_nextTimerId, r_inflight, r_scheduleTimes,
                   othersRecog>>

\* SignToText renders: the camera gets a handleDetection that sees the new
\* translations
H_Render ==
  /\ s_dirty
  /\ s_dirty' = FALSE
  /\ r_onDetection' = [translations |-> s_translations,
                       isSpeechEnabled |-> s_isSpeechEnabled]
  /\ UNCHANGED <<r_clock, s_translations, s_isSpeechEnabled, R_hookVars,
                 r_dirty, r_lastPredictionTime, r_predictionTimeoutRef,
                 r_timers, r_nextTimerId, r_inflight, r_currentPrediction,
                 r_scheduleTimes, r_predictTimes, r_delivery, othersRecog>>

\* 100 ms pass in both components once their renders are done
H_Tick ==
  /\ ~s_dirty /\ ~a_dirty
  /\ r_clock < Epoch + H_MaxTicks
  /\ r_clock' = r_clock + 1
  /\ a_clock' = a_clock + 1
  /\ UNCHANGED <<s_translations, s_isSpeechEnabled, s_dirty, r_onDetection,
                 R_hookVars, r_dirty, r_lastPredictionTime,
                 r_predictionTimeoutRef, r_timers, r_nextTimerId, r_inflight,
                 r_currentPrediction, r_scheduleTimes, r_predictTimes,
                 r_delivery>>
  /\ UNCHANGED <<a_predictions, a_onDetection, a_dirty, a_currentPrediction,
                 a_calls>>
  /\ UNCHANGED <<varsGestures, varsModel, varsCamera, varsWebcam, varsText,
                 varsDetection, varsVideo, varsHandpose>>

NextHistory ==
  \/ A_OnDetection
  \/ A_NoHand
  \/ A_Render
  \/ H_Detect
  \/ H_Render
  \/ H_Tick

----------------------------------------------------------------------------
(* useHandpose: startDetection, stopDetection and the detect loop          *)

\* animation frames requested in one behaviour
HP_MaxFrames == 4

\* calls of startDetection in one behaviour
HP_MaxLoops == 3

HP_NoHand == [isDetected |-> FALSE, landmarks |-> 0]

\* the hook after the first render and its effects: stopDetection has run
\* with nothing to stop and loadModel is waiting
IdleHandpose ==
  /\ hp_mounted = TRUE
  /\ hp_isModelLoaded = FALSE
  /\ hp_videoElement = 0
  /\ hp_modelRef = FALSE
  /\ hp_animationRef = 0
  /\ hp_isDetectingRef = FALSE
  /\ hp_handposeResult = HP_NoHand
  /\ hp_loops = {}
  /\ hp_nextLoop = 1
  /\ hp_nextFrame = 1
  /\ hp_stopped = {}
  /\ hp_afterStop = {}

InitHandpose == IdleHandpose

\* the refs and the loops, as the functions below pass them on
HP_env ==
  [animationRef |-> hp_animationRef, isDetectingRef |-> hp_isDetectingRef,
   loops |-> hp_loops, nextLoop |-> hp_nextLoop, nextFrame |-> hp_nextFrame,
   stopped |-> hp_stopped, afterStop |-> hp_afterStop]

HP_assign(env) ==
  /\ hp_animationRef' = env.animationRef
  /\ hp_isDetectingRef' = env.isDetectingRef
  /\ hp_loops' = env.loops
  /\ hp_nextLoop' = env.nextLoop
  /\ hp_nextFrame' = env.nextFrame
  /\ hp_stopped' = env.stopped
  /\ hp_afterStop' = env.afterStop

\* what a loop does after stopDetection has stopped it is recorded
HP_record(env, loop, did) ==
  IF loop.id \in env.stopped
  THEN env.afterStop \cup {[loop |-> loop.id, did |-> did]}
  ELSE env.afterStop

\* cancelAnimationFrame(animationRef.current)
HP_cancel(env) ==
  {l \in env.loops : ~(l.pc = "frame" /\ l.frame = env.animationRef)}

\* stopDetection
HP_stopDetection(env) ==
  [env EXCEPT !.loops = IF env.animationRef # 0 THEN HP_cancel(env) ELSE @,
              !.animationRef = 0,
              !.isDetectingRef = FALSE,
              !.stopped = @ \cup {l.id : l \in env.loops}]

\* detect after its await: animationRef.current = requestAnimationFrame(detect)
HP_requestFrame(env, loop) ==
  [env EXCEPT !.animationRef = env.nextFrame,
              !.nextFrame = @ + 1,
              !.loops = (@ \ {loop}) \cup
                 {[loop EXCEPT !.pc = "frame", !.frame = env.nextFrame]},
              !.afterStop = HP_record(env, loop, "requestAnimationFrame")]

\* detect up to the point where it waits: detectHands returns at once, and
\* the next frame is requested, or it waits for estimateHands
HP_detect(env, loop, model, readyState) ==
  IF ~model \/ loop.video = 0 \/ env.isDetectingRef \/ readyState # 4
  THEN HP_requestFrame(env, loop)
  ELSE [env EXCEPT !.isDetectingRef = TRUE,
                   !.loops = (@ \ {loop}) \cup {[loop EXCEPT !.pc = "estimate"]}]

\* startDetection as created for videoElement
HP_startDetection(env, videoElement, model, readyState) ==
  LET cancelled == IF env.animationRef # 0
                   THEN [env EXCEPT !.loops = HP_cancel(env)] ELSE env
      loop == [id |-> env.nextLoop, video |-> videoElement, pc |-> "new",
               frame |-> 0]
  IN HP_detect([cancelled EXCEPT !.nextLoop = @ + 1], loop, model, readyState)

\* the detection effect runs again: its cleanup, then its body
HP_effect(isModelLoaded, videoElement, model, readyState) ==
  LET cleaned == HP_stopDetection(HP_env)
  IN IF isModelLoaded /\ videoElement # 0
     THEN HP_startDetection(cleaned, videoElement, model, readyState)
     ELSE HP_stopDetection(cleaned)

\* loadModel: handpose.load() resolves
HP_ModelLoaded ==
  /\ ~hp_modelRef /\ hp_mounted
  /\ hp_modelRef' = TRUE
  /\ hp_isModelLoaded' = TRUE
  /\ \E readyState \in {1, 4} :
       HP_assign(HP_effect(TRUE, hp_videoElement, TRUE, readyState))
  /\ UNCHANGED <<hp_mounted, hp_videoElement, hp_handposeResult, othersHandpose>>

\* the caller renders with another videoElement: the webcam became ready, or
\* stopped being ready
HP_VideoElementChange ==
  \E videoElement \in {0, 1}, readyState \in {1, 4} :
    /\ hp_mounted
    /\ videoElement # hp_videoElement
    /\ hp_nextLoop <= HP_MaxLoops
    /\ hp_nextFrame <= HP_MaxFrames
    /\ hp_videoElement' = videoElement
    /\ HP_assign(HP_effect(hp_isModelLoaded, videoElement, hp_modelRef,
                           readyState))
    /\ UNCHANGED <<hp_mounted, hp_isModelLoaded, hp_modelRef,
                   hp_handposeResult, othersHandpose>>

\* the animation frame of a loop: detect runs again
HP_AnimationFrame ==
  \E loop \in hp_loops, readyState \in {1, 4} :
    /\ loop.pc = "frame"
    /\ hp_nextFrame <= HP_MaxFrames
    /\ HP_assign(HP_detect(HP_env, loop, hp_modelRef, readyState))
    /\ UNCHANGED <<hp_mounted, hp_isModelLoaded, hp_videoElement, hp_modelRef,
                   hp_handposeResult, othersHandpose>>

\* estimateHands resolves or rejects: setHandposeResult, isDetectingRef =
\* false, and detect requests the next frame
HP_EstimateSettled ==
  \E loop \in hp_loops, isDetected \in BOOLEAN :
    /\ loop.pc = "estimate"
    /\ hp_nextFrame <= HP_MaxFrames
    /\ hp_handposeResult' =
         IF ~hp_mounted THEN hp_handposeResult
         ELSE IF isDetected THEN [isDetected |-> TRUE, landmarks |-> 21]
         ELSE HP_NoHand
    /\ LET env == [HP_env EXCEPT
                     !.isDetectingRef = FALSE,
                     !.afterStop = IF hp_mounted
                                   THEN HP_record(HP_env, loop, "setHandposeResult")
                                   ELSE @]
       IN HP_assign(HP_requestFrame(env, loop))
    /\ UNCHANGED <<hp_mounted, hp_isModelLoaded, hp_videoElement, hp_modelRef,
                   othersHandpose>>

\* the component unmounts: both cleanups call stopDetection, modelRef is
\* cleared
HP_Unmount ==
  /\ hp_mounted
  /\ hp_mounted' = FALSE
  /\ hp_modelRef' = FALSE
  /\ HP_assign(HP_stopDetection(HP_stopDetection(HP_env)))
  /\ UNCHANGED <<hp_isModelLoaded, hp_videoElement, hp_handposeResult,
                 othersHandpose>>

NextHandpose ==
  \/ HP_ModelLoaded
  \/ HP_VideoElementChange
  \/ HP_AnimationFrame
  \/ HP_EstimateSettled
  \/ HP_Unmount

----------------------------------------------------------------------------
(* Specifications: one per component, the others at rest                   *)

InitSpecGestures == InitGestures /\ IdleModel /\ IdleCamera /\ IdleRecog /\ IdleWebcam /\ IdleText /\ IdleDetection /\ IdleVideo /\ IdleApp /\ IdleHandpose

NextGestures == G_Predict

SpecGestures == InitSpecGestures /\ [][NextGestures]_vars

InitSpecModel == IdleGestures /\ InitModel /\ IdleCamera /\ IdleRecog /\ IdleWebcam /\ IdleText /\ IdleDetection /\ IdleVideo /\ IdleApp /\ IdleHandpose

SpecModel == InitSpecModel /\ [][NextModel]_vars

InitSpecFeatures == IdleGestures /\ InitFeatures /\ IdleCamera /\ IdleRecog /\ IdleWebcam /\ IdleText /\ IdleDetection /\ IdleVideo /\ IdleApp /\ IdleHandpose

NextFeatures == F_Extract

SpecFeatures == InitSpecFeatures /\ [][NextFeatures]_vars

InitSpecCamera == IdleGestures /\ IdleModel /\ InitCamera /\ IdleRecog /\ IdleWebcam /\ IdleText /\ IdleDetection /\ IdleVideo /\ IdleApp /\ IdleHandpose

SpecCamera == InitSpecCamera /\ [][NextCamera]_vars

InitSpecRecog == IdleGestures /\ IdleModel /\ IdleCamera /\ InitRecog /\ IdleWebcam /\ IdleText /\ IdleDetection /\ IdleVideo /\ IdleApp /\ IdleHandpose

SpecRecog == InitSpecRecog /\ [][NextRecog]_vars

SpecRecogSteady == InitSpecRecog /\ [][NextRecogSteady]_vars

InitSpecWebcam == IdleGestures /\ IdleModel /\ IdleCamera /\ IdleRecog /\ InitWebcam /\ IdleText /\ IdleDetection /\ IdleVideo /\ IdleApp /\ IdleHandpose

SpecWebcam == InitSpecWebcam /\ [][NextWebcam]_vars

\* React renders every state update it has queued
SpecWebcamFair == SpecWebcam /\ WF_vars(W_Render)

InitSpecText == IdleGestures /\ IdleModel /\ IdleCamera /\ IdleRecog /\ IdleWebcam /\ InitText /\ IdleDetection /\ IdleVideo /\ IdleApp /\ IdleHandpose

SpecText == InitSpecText /\ [][NextText]_vars

SpecTextSpeech == InitSpecText /\ [][NextTextSpeech]_vars

InitSpecDetection == IdleGestures /\ IdleModel /\ IdleCamera /\ IdleRecog /\ IdleWebcam /\ IdleText /\ InitDetection /\ IdleVideo /\ IdleApp /\ IdleHandpose

SpecDetection == InitSpecDetection /\ [][NextDetection]_vars

InitSpecVideo == IdleGestures /\ IdleModel /\ IdleCamera /\ IdleRecog /\ IdleWebcam /\ IdleText /\ IdleDetection /\ InitVideo /\ IdleApp /\ IdleHandpose

SpecVideo == InitSpecVideo /\ [][NextVideo]_vars

InitSpecHistory == IdleGestures /\ IdleModel /\ IdleCamera /\ IdleWebcam /\ IdleText /\ IdleDetection /\ IdleVideo /\ InitHistory /\ IdleHandpose

SpecHistory == InitSpecHistory /\ [][NextHistory]_vars

InitSpecHandpose == IdleGestures /\ IdleModel /\ IdleCamera /\ IdleRecog /\ IdleWebcam /\ IdleText /\ IdleDetection /\ IdleVideo /\ IdleApp /\ InitHandpose

SpecHandpose == InitSpecHandpose /\ [][NextHandpose]_vars

----------------------------------------------------------------------------
(* C1: for a hand of 21 landmarks, a finger counts as extended iff its 2D  *)
(* wrist-to-fingertip distance is strictly greater than 0.7 times the mean *)
(* of the five distances, and the prediction is the one the table gives    *)
(* for the five flags: none -> A 0.7; one: index D 0.8, pinky I 0.8, else  *)
(* A 0.6; two: index+middle V 0.8, thumb+index L 0.8, thumb+pinky Y 0.8,   *)
(* else V 0.6; four -> B 0.7; three or five -> B 0.6.                      *)

C1_dist2(landmarks, k) ==
  LET w == landmarks[1]
      p == landmarks[k + 1]
  IN (p.x - w.x) * (p.x - w.x) + (p.y - w.y) * (p.y - w.y)

\* d_i > 0.7 * (d_1 + ... + d_5) / 5, stated on the squared 2D distances
C1_root(n) == CHOOSE r \in 0..n : r * r = n

C1_flag(landmarks, i) ==
  LET d == [j \in 1..5 |-> C1_root(C1_dist2(landmarks, TipIndices[j]))] IN
  50 * d[i] > 7 * (d[1] + d[2] + d[3] + d[4] + d[5])

C1_table(F) ==
  LET n == Cardinality(F) IN
  CASE n = 0 -> [letter |-> "A", confidence |-> 70]
    [] n = 1 /\ F = {2} -> [letter |-> "D", confidence |-> 80]
    [] n = 1 /\ F = {5} -> [letter |-> "I", confidence |-> 80]
    [] n = 1 /\ F \notin {{2}, {5}} -> [letter |-> "A", confidence |-> 60]
    [] n = 2 /\ F = {2, 3} -> [letter |-> "V", confidence |-> 80]
    [] n = 2 /\ F = {1, 2} -> [letter |-> "L", confidence |-> 80]
    [] n = 2 /\ F = {1, 5} -> [letter |-> "Y", confidence |-> 80]
    [] n = 2 /\ F \notin {{2, 3}, {1, 2}, {1, 5}} -> [letter |-> "V", confidence |-> 60]
    [] n = 4 -> [letter |-> "B", confidence |-> 70]
    [] n \in {3, 5} -> [letter |-> "B", confidence |-> 60]

C1_HeuristicTable ==
  (Len(g_landmarks) = 21 /\ g_prediction # NONE) =>
    g_prediction = C1_table({i \in 1..5 : C1_flag(g_landmarks, i)})

C1_Witness ==
  /\ Len(g_landmarks) = 21
  /\ g_prediction = [letter |-> "Y", confidence |-> 80]

----------------------------------------------------------------------------
(* C2: when tf.loadLayersModel('/models/asl_model.json') rejects,          *)
(* loadModel has finished and (the component still being mounted)          *)
(* isLoading = false, error = null and model = null; and every predict     *)
(* call made afterwards returns the heuristic classification of its        *)
(* landmarks.                                                              *)

C2_heuristicResults ==
  {M_generateHeuristicPrediction(m_landmarks, coin) : coin \in BOOLEAN}

C2_MissingModelFallsBack ==
  m_loadRejected =>
    /\ m_loadPc = "done"
    /\ m_mounted => (m_isLoading = FALSE /\ m_error = NULL /\ m_model = NULL)
    /\ m_modelRef = NULL
    /\ m_predPc = "idle"
    /\ m_resultAfterLoad => m_result \in C2_heuristicResults

C2_Witness ==
  /\ m_loadRejected /\ m_mounted
  /\ m_resultAfterLoad
  /\ m_result = [letter |-> "V", confidence |-> 85]

----------------------------------------------------------------------------
(* C9: extractFeatures returns exactly 73 features for a hand of 21        *)
(* landmarks: the 63 coordinates relative to the wrist in landmark order   *)
(* (the first three are 0), then the 10 distances between the fingertips   *)
(* 4, 8, 12, 16, 20 taken pairwise; for any other number of landmarks it   *)
(* throws.                                                                 *)

C9_pairs == <<{4, 8}, {4, 12}, {4, 16}, {4, 20}, {8, 12},
              {8, 16}, {8, 20}, {12, 16}, {12, 20}, {16, 20}>>

C9_sqDist(p, q) ==
  (p.x - q.x) * (p.x - q.x) + (p.y - q.y) * (p.y - q.y)
    + (p.z - q.z) * (p.z - q.z)

C9_Features ==
  m_features # NONE =>
    IF Len(m_landmarks) # 21 THEN m_features.threw
    ELSE
      LET f == m_features.features
          wrist == m_landmarks[1]
      IN
      /\ ~m_features.threw
      /\ Len(f) = 73
      /\ f[1] = 0 /\ f[2] = 0 /\ f[3] = 0
      /\ \A k \in 0..20 :
           /\ f[3 * k + 1] = m_landmarks[k + 1].x - wrist.x
           /\ f[3 * k + 2] = m_landmarks[k + 1].y - wrist.y
           /\ f[3 * k + 3] = m_landmarks[k + 1].z - wrist.z
      /\ \A q \in 1..10 :
           \E a, b \in C9_pairs[q] :
             /\ a < b
             /\ f[63 + q] >= 0
             /\ f[63 + q] * f[63 + q]
                  = C9_sqDist(m_landmarks[a + 1], m_landmarks[b + 1])

C9_Witness ==
  /\ m_features # NONE
  /\ Len(m_landmarks) = 21
  /\ m_landmarks[1] = [x |-> 1, y |-> 2, z |-> 5]
  /\ m_features.features[73] = 13

C9_WitnessThrows ==
  m_features # NONE /\ Len(m_landmarks) = 22 /\ m_features.threw

----------------------------------------------------------------------------
(* C10: when predict gets an output from the loaded model, it returns one  *)
(* of the letters A-Z: the label at the lowest index holding the largest   *)
(* output probability, or 'A' when that index has no label, with that      *)
(* probability as confidence.                                              *)

C10_Letters == {ASL_LABELS[i] : i \in 1..26}

C10_ModelPrediction ==
  m_probs # <<>> =>
    LET best == CHOOSE i \in DOMAIN m_probs :
                  /\ \A j \in DOMAIN m_probs : m_probs[j] <= m_probs[i]
                  /\ \A j \in DOMAIN m_probs : m_probs[j] = m_probs[i] => i <= j
    IN
    /\ m_result.letter \in C10_Letters
    /\ m_result.confidence = m_probs[best]
    /\ m_result.letter = IF best <= 26 THEN ASL_LABELS[best] ELSE "A"

C10_Witness ==
  /\ m_probs # <<>>
  /\ Len(m_probs) = 27
  /\ m_probs[27] = 50 /\ m_probs[26] = 10
  /\ m_result = [letter |-> "A", confidence |-> 50]

C10_WitnessTie ==
  /\ Len(m_probs) = 26
  /\ m_probs[2] = 50 /\ m_probs[26] = 50
  /\ m_result = [letter |-> "B", confidence |-> 50]

----------------------------------------------------------------------------
(* C3: in ASLCamera any two consecutive calls of onDetection (each made    *)
(* together with a call of predictGesture) are more than 1000 ms apart,    *)
(* however often handposeResult changes and the component renders.         *)

C3_Throttled ==
  \A i \in 1..(Len(c_callTimes) - 1) :
    c_callTimes[i + 1] - c_callTimes[i] > 10

C3_Witness ==
  /\ Len(c_callTimes) = 2
  /\ c_callTimes[2] - c_callTimes[1] = 11

----------------------------------------------------------------------------
(* C4: ASLRecognitionCamera throttles predictions to every 2 seconds       *)

\* consecutive schedulings of makePrediction are at least 2000 ms apart
C4_SchedulingsApart ==
  \A i \in 1..(Len(r_scheduleTimes) - 1) :
    r_scheduleTimes[i + 1] - r_scheduleTimes[i] >= 20

\* at most one prediction timeout is pending
C4_OnePending == Cardinality(r_timers) <= 1

\* C4 as stated: schedulings are at least 2000 ms apart, at most one timeout
\* is pending, and no two calls of predict are less than 2000 ms apart
C4_OncePerWindow ==
  /\ C4_SchedulingsApart
  /\ C4_OnePending
  /\ \A i \in 1..(Len(r_predictTimes) - 1) :
       r_predictTimes[i + 1] - r_predictTimes[i] >= 20

\* C4 amended: schedulings are at least 2000 ms apart, at most one timeout is
\* pending, and two calls of predict are at least the 300 ms delay apart (a
\* timeout that fires late can bring them closer than 2000 ms)
C4_Throttled ==
  /\ C4_SchedulingsApart
  /\ C4_OnePending
  /\ \A i \in 1..(Len(r_predictTimes) - 1) :
       r_predictTimes[i + 1] - r_predictTimes[i] >= 3

\* two schedulings 2000 ms apart whose calls of predict are closer than that
C4_Witness ==
  /\ Len(r_scheduleTimes) = 2
  /\ Len(r_predictTimes) = 2
  /\ r_scheduleTimes[2] - r_scheduleTimes[1] = 20
  /\ r_predictTimes[2] - r_predictTimes[1] < 20

----------------------------------------------------------------------------
(* C7: SignToText speaks a detection iff it is added while sound is on     *)

\* C7: speak is called for a delivered detection exactly when the detection
\* is added to the history and sound is on at the time of the delivery
C7_SpokenIffAddedWithSoundOn ==
  r_delivery # NONE =>
    (r_delivery.spoke <=> (r_delivery.added /\ r_delivery.soundOn))

----------------------------------------------------------------------------
(* C5: Retry Camera recovers when the request and the playback succeed     *)

\* a retry has finished: its startWebcam call, overlapped by no other call,
\* timeout or stopWebcam, got a stream and play() resolved
C5_RetrySucceeded ==
  /\ w_mounted
  /\ w_done # NONE
  /\ w_done.retry /\ w_done.alone /\ w_done.played

\* the hook is ready with the stream of the retry on the video element
C5_Recovered ==
  /\ w_state = [isReady |-> TRUE, error |-> NULL, isLoading |-> FALSE]
  /\ w_video # 0
  /\ w_done.stream # 0
  /\ w_srcObject = w_done.stream
  /\ w_streamRef = w_done.stream

\* C5: the startWebcam of a retry is called at least 100 ms after the click,
\* and when its request and the playback have succeeded the hook reaches
\* error = null, isLoading = false, isReady = true with the new stream on the
\* video element (at the latest when React has rendered the queued updates)
C5_RetryRecovers ==
  /\ [](\A c \in w_calls : c.retry => c.delay >= 1)
  /\ [](C5_RetrySucceeded /\ w_next = w_state => C5_Recovered)
  /\ (C5_RetrySucceeded ~> (C5_Recovered \/ ~w_mounted))

C5_Witness == C5_RetrySucceeded /\ C5_Recovered

----------------------------------------------------------------------------
(* C6: handleSubmit shows the upper-cased first letter or some letter      *)

C6_Letters == {T_mockSignDataKeys[i] : i \in 1..26}

\* the positions of text that hold something else than white space
C6_inked(text) == {i \in 1..Len(text) : text[i] \notin T_whiteSpace}

\* the first character of the trimmed text
C6_first(text) == text[CHOOSE i \in C6_inked(text) : \A j \in C6_inked(text) : i <= j]

\* C6: after handleSubmit of an input whose trimmed text is non-empty
\* currentSign is the upper-cased first character of the trimmed text when
\* that is one of A-Z and some key of mockSignData otherwise; after
\* handleSubmit of an empty or white-space input currentSign is as before;
\* and currentSign is always null or one of A-Z
C6_HandleSubmit ==
  /\ t_currentSign \in C6_Letters \cup {NULL}
  /\ t_submitted # NONE =>
       IF C6_inked(t_submitted.text) = {}
       THEN t_currentSign = t_submitted.before
       ELSE IF T_toUpperCase(C6_first(t_submitted.text)) \in C6_Letters
       THEN t_currentSign = T_toUpperCase(C6_first(t_submitted.text))
       ELSE t_currentSign \in C6_Letters

\* " b " has been submitted and B is shown
C6_Witness ==
  /\ t_submitted # NONE
  /\ t_submitted.text = <<" ", "b", " ">>
  /\ t_currentSign = "B"

\* a text without a letter in front has been submitted and some key is shown
C6_WitnessFallback ==
  /\ t_submitted # NONE
  /\ t_submitted.text = <<"ß">>
  /\ t_currentSign = "Z"

\* white space has been submitted and the sign shown before is still shown
C6_WitnessUnchanged ==
  /\ t_submitted # NONE
  /\ t_submitted.text = <<"\t", " ">>
  /\ t_submitted.before = "Z"
  /\ t_currentSign = "Z"

----------------------------------------------------------------------------
(* C8: when useHandDetection reports a hand, and with what confidence      *)

C8_WitnessFirstFrame ==
  /\ d_analysis # NONE
  /\ ~d_analysis.hasPrevious
  /\ d_previousFrame \in D_Frames
  /\ d_previousFrame.n = 97

\* a frame with 50 hand pixels and motion is not reported as a hand
C8_WitnessFiftyPixels ==
  /\ d_analysis # NONE
  /\ d_analysis.handPixels = 50
  /\ 100 * d_analysis.motionPixels > 5 * d_analysis.totalSearchPixels
  /\ ~d_handDetection.isDetected

----------------------------------------------------------------------------
(* C11: a hand that stays detected gets a prediction                       *)

\* C11: with MediaPipe ready, the model loaded and a hand detected in every
\* result, predict has been called (and its result is on its way to
\* onDetection) at the latest 2400 ms after the first prediction timeout was
\* set: a full throttle period, the 300 ms delay and a late timeout
C11_PredictedInTime ==
  (r_scheduleTimes # <<>> /\ r_clock - r_scheduleTimes[1] >= 24)
    => r_predictTimes # <<>>

----------------------------------------------------------------------------
(* C12: ASLRecognitionCamera initialises the webcam once                   *)

\* C12: as long as no request and no playback has failed (so Retry cannot
\* have been pressed) getUserMedia has been requested once only, and once
\* React has rendered the acquired stream it is on the video element
C12_InitialisedOnce ==
  ~v_failed =>
    /\ v_requests <= 1
    /\ (v_state.stream # 0 /\ v_next = v_state) => v_srcObject = v_state.stream

----------------------------------------------------------------------------
(* C13: ASLRecognitionCamera keeps at most one stream running              *)

\* C13: at most one acquired stream has live tracks, and once the component
\* has unmounted and no startWebcam call is pending none has
C13_OneLiveStream ==
  /\ Cardinality(v_live) <= 1
  /\ (~v_mounted /\ v_calls = {}) => v_live = {}

----------------------------------------------------------------------------
(* C14: TextToSign shows the sign of the text that was just set            *)

\* C14: when a delayed handleSubmit runs, the sign displayed afterwards is the
\* one for the first letter of the text that was set when it was scheduled
C14_DelayedSubmitShowsNewText ==
  [][(t_timers # <<>> /\ t_timers' = Tail(t_timers)) =>
       t_currentSign' = T_toUpperCase(Head(T_trim(Head(t_set))))]_vars

----------------------------------------------------------------------------
(* C15: SignToText adds a repeated letter only after 2 seconds             *)

\* two adjacent entries of the history with the same letter are at least
\* gap ticks apart
C15_adjacentApart(gap) ==
  \A i \in 1..(Len(s_translations) - 1) :
    s_translations[i].text = s_translations[i + 1].text =>
      s_translations[i].timestamp - s_translations[i + 1].timestamp >= gap

C15_WitnessBoundary ==
  /\ r_delivery # NONE
  /\ r_delivery.last # NONE
  /\ r_delivery.last.text = r_delivery.letter
  /\ r_delivery.at - r_delivery.last.timestamp = 20
  /\ ~r_delivery.added

----------------------------------------------------------------------------
(* C16: the histories keep the last 15 and the last 50 entries             *)

\* the entries of history are ordered newest first
C16_newestFirst(history) ==
  \A i \in 1..(Len(history) - 1) :
    history[i].timestamp >= history[i + 1].timestamp

\* after is before with one entry added in front, and without the oldest
\* entry of before if before was full
C16_added(before, after, cap) ==
  /\ after # <<>>
  /\ Tail(after) = IF Len(before) < cap THEN before
                   ELSE SubSeq(before, 1, cap - 1)

\* C16: translations never holds more than 15 entries and predictions never
\* more than 50, both newest first, and a change of either adds one entry in
\* front and drops exactly the oldest entry of a full list
C16_KeepsLastEntries ==
  [][/\ Len(s_translations') <= 15
     /\ Len(a_predictions') <= 50
     /\ C16_newestFirst(s_translations')
     /\ C16_newestFirst(a_predictions')
     /\ s_translations' # s_translations =>
          C16_added(s_translations, s_translations', 15)
     /\ a_predictions' # a_predictions =>
          C16_added(a_predictions, a_predictions', 50)]_vars

\* both lists are full and each has had an entry added since it was full
C16_Witness ==
  /\ Len(s_translations) = 15
  /\ Len(a_predictions) = 50
  /\ s_translations = <<[text |-> "B", timestamp |-> Epoch + 1]>>
                       \o SubSeq(H_translations(15), 1, 14)
  /\ a_predictions[1].timestamp >= Epoch
  /\ Tail(a_predictions) = SubSeq(H_predictions(50), 1, 49)

----------------------------------------------------------------------------
(* C17: App keeps, and ASLCamera shows, confident predictions only         *)

\* C17: every entry of predictions has a confidence above 0.6; a call of
\* onDetection with a prediction of confidence 0.6 or less leaves predictions
\* unchanged, and that prediction is not shown in the overlay
C17_ConfidentOnly ==
  [][/\ \A i \in 1..Len(a_predictions') : a_predictions'[i].confidence > 60
     /\ (a_calls' # a_calls /\ a_currentPrediction'.confidence <= 60) =>
          /\ a_predictions' = a_predictions
          /\ ~A_overlayShown(a_currentPrediction')]_vars

\* a prediction of confidence 0.6 was the last one passed to onDetection,
\* after one of confidence 0.8 had been added
C17_Witness ==
  /\ a_calls >= 2
  /\ a_currentPrediction # NONE
  /\ a_currentPrediction.confidence = 60
  /\ a_predictions # <<>>
  /\ a_predictions[1].timestamp >= Epoch
  /\ a_predictions[1].letter = "D"

----------------------------------------------------------------------------
(* C18: useWebcam is stopped after stopWebcam                              *)

\* C18: from a run of stopWebcam until the next call of startWebcam no stream
\* the hook obtained has a live track and isReady is false
C18_StoppedStaysStopped ==
  w_stopped => (w_live = {} /\ ~w_next.isReady)

----------------------------------------------------------------------------
(* C19: a stopped detection loop of useHandpose does nothing more          *)

\* C19: a loop that was running when stopDetection ran has since requested
\* no animation frame and has not updated handposeResult
C19_StoppedLoopIsQuiet ==
  hp_afterStop = {}

====
